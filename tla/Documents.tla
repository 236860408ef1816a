----------------------------- MODULE Documents -----------------------------
(***************************************************************************)
(* JSON documents: the tree operations (jsondoc/doc.go), the commands       *)
(* (command/json/json.go) and their storage, one register per node         *)
(* (crdtstore/rjson.go).                                                   *)
(*                                                                         *)
(* A document is a function from paths to nodes <<kind, raw>>.  A path is a *)
(* sequence of segments, <<"f", name>> or <<"a", place>> with the places of *)
(* list elements; it is there only when its parent is a container of its   *)
(* kind.  The empty function is the document that does not exist.           *)
(***************************************************************************)
EXTENDS Lists

CONSTANT IntMax   \* integers are -IntMax-1 .. IntMax (MaxInt64)

Object == <<"object", 0>>
Array == <<"array", 0>>
Number(n) == <<"number", n>>
Bool(b) == <<"bool", b>>
NoDoc == <<>>

-----------------------------------------------------------------------------
(* jsondoc: navigation                                                     *)

Kind(doc, p) == doc[p][1]
Below(doc, p) == {q \in DOMAIN doc : IsPrefix(p, q)}
children(doc, p) == {q \in Below(doc, p) : Len(q) = Len(p) + 1}
Elems(doc, p) == SetToSortSeq(children(doc, p), LAMBDA a, b : Before(a[Len(a)][2], b[Len(b)][2]))
fieldRef(doc, p, name) == {Append(p, <<"f", name>>)} \cap DOMAIN doc
elemRefs(doc, p) == IF Kind(doc, p) = "array" THEN Elems(doc, p) ELSE <<>>

expand(doc, p, st) ==
    CASE st[1] = "field" -> fieldRef(doc, p, st[2])
      [] st[1] = "index" ->
            LET els == elemRefs(doc, p) i == absIndex(st[2], Len(els)) IN
            IF i >= 0 /\ i < Len(els) THEN {els[i + 1]} ELSE {}
      [] st[1] = "wildcard" -> children(doc, p)
      [] st[1] = "recfield" -> UNION {fieldRef(doc, q, st[2]) : q \in Below(doc, p)}
      [] st[1] = "recwildcard" -> Below(doc, p) \ {p}

Select(doc, path) ==
    IF doc = NoDoc THEN {}
    ELSE FoldLeft(LAMBDA cur, st : UNION {expand(doc, p, st) : p \in cur}, {<<>>}, path)

-----------------------------------------------------------------------------
(* jsondoc: mutation.  A reference below another that was replaced, cleared *)
(* or removed is out of the document.                                      *)

Without(doc, gone) == Restrict(doc, {q \in DOMAIN doc : \A p \in gone : ~IsPrefix(p, q)})
Topmost(ps) == {p \in ps : ~\E q \in ps : IsStrictPrefix(q, p)}
Graft(doc, at, tree) ==
    LET new == UNION {{p \o q : q \in DOMAIN tree} : p \in at}
        treeAt(x) == tree[CHOOSE q \in DOMAIN tree : \E p \in at : x = p \o q]
    IN  [x \in new |-> treeAt(x)] @@ Without(doc, at)

DocDelete(doc, refs) == Without(doc, refs)

(***************************************************************************)
(* Set: at every match, or as a new field of every parent that is an object.*)
(***************************************************************************)
DocSet(doc, path, tree) ==
    LET refs == Select(doc, path)
        end == path[Len(path)]
        parents == {p \in Select(doc, Front(path)) : Kind(doc, p) = "object"}
    IN  CASE path = <<>> -> tree
          [] path # <<>> /\ refs # {} -> Graft(doc, Topmost(refs), tree)
          [] path # <<>> /\ refs = {} /\ end[1] = "field" ->
                Graft(doc, {Append(p, <<"f", end[2]>>) : p \in parents}, tree)
          [] OTHER -> doc

(***************************************************************************)
(* The place of a new element between two others, 0 for an open end, and   *)
(* the text of a value: a node, its fields and its elements.               *)
(***************************************************************************)
NewPos(r, prev, next, n) ==
    <<CASE prev # <<>> /\ next # <<>> -> Mid(prev, next)
        [] prev # <<>> /\ next = <<>> -> prev[1] + Unit
        [] prev = <<>> /\ next # <<>> -> next[1] - Unit
        [] OTHER -> 0,
      r, listSeq[r] + n>>

Scalar(node) == [node |-> node, fields |-> <<>>, elems |-> <<>>]
ObjectOf(fields) == [node |-> Object, fields |-> fields, elems |-> <<>>]
ArrayOf(elems) == [node |-> Array, fields |-> <<>>, elems |-> elems]
Parse(r, text) ==
    LET place(i) == <<(i - 1) * Unit, r, listSeq[r] + i>>
        field(p) == text.fields[p[1][2]]
    IN  [p \in {<<<<"f", n>>>> : n \in DOMAIN text.fields} |-> field(p)]
            @@ [p \in {<<<<"a", place(i)>>>> : i \in DOMAIN text.elems} |->
                    text.elems[CHOOSE i \in DOMAIN text.elems : place(i) = p[1][2]]]
            @@ (<<>> :> text.node)

PlaceOf(els, i) == IF i \in DOMAIN els THEN els[i][Len(els[i])][2] ELSE <<>>
InsertElem(doc, r, arr, i, node, n) ==
    LET els == Elems(doc, arr)
        pos == NewPos(r, PlaceOf(els, i), PlaceOf(els, i + 1), n)
    IN  (Append(arr, <<"a", pos>>) :> node) @@ doc
AppendElem(doc, r, arr, node, n) == InsertElem(doc, r, arr, Len(Elems(doc, arr)), node, n)

-----------------------------------------------------------------------------
(* crdtstore/rjson.go                                                      *)

jsonNode(k, p) == <<"j", k, p>>
Reachable(m, k, p) ==
    \A i \in 0 .. Len(p) - 1 :
        LET q == SubSeq(p, 1, i) IN
        /\ LiveSlot(m, jsonNode(k, q))
        /\ LiveValue(m, jsonNode(k, q))[1] = IF p[i + 1][1] = "f" THEN "object" ELSE "array"
loadJSON(m, k) ==
    [p \in {q \in Live(m, "j", k) : Reachable(m, k, q)} |-> LiveValue(m, jsonNode(k, p))]

saveJSONDiff(k, old, cur) ==
    LET changed == {p \in DOMAIN cur : p \in DOMAIN old => old[p] # cur[p]} IN
    Each(DOMAIN old \ DOMAIN cur, LAMBDA p : Deleted(jsonNode(k, p)))
        \o Each(changed, LAMBDA p : Present(jsonNode(k, p), cur[p]))

Document(m, k) == IF ensureType(m, k, "json") /\ probe(m, k) THEN loadJSON(m, k) ELSE NoDoc

(***************************************************************************)
(* Update(fn): cur is what fn makes of the document it loaded.  A command    *)
(* that fails writes nothing and is no step (the tie-breakers it used up   *)
(* are lost, which nothing depends on).                                    *)
(***************************************************************************)
Update(r, k, create, cur, minted) ==
    LET m == Data(r) exists == probe(m, k) old == loadJSON(m, k) IN
    /\ ensureType(m, k, "json")
    /\ exists \/ create
    /\ Do(r, saveJSONDiff(k, old, cur)
                \o (CASE cur = NoDoc /\ exists -> <<deleteMeta(k)>>
                      [] cur # NoDoc /\ ~exists -> <<writeMeta(k, MetaOf("json"))>>
                      [] OTHER -> <<>>))
    /\ listSeq' = [listSeq EXCEPT ![r] = @ + minted] /\ UNCHANGED restarts

deleteJSON(m, k) == saveJSONDiff(k, loadJSON(m, k), NoDoc) \o <<deleteMeta(k)>>
copyJSON(m, k, to) ==
    IF loadJSON(m, k) = NoDoc THEN <<>>
    ELSE saveJSONDiff(to, NoDoc, loadJSON(m, k)) \o <<writeMeta(to, MetaOf("json"))>>

-----------------------------------------------------------------------------
(* command/json                                                            *)

applySet(doc, path, tree, nx, xx) ==
    LET matches == Select(doc, path) IN
    CASE doc = NoDoc -> IF xx THEN doc ELSE tree
      [] doc # NoDoc /\ ((nx /\ matches # {}) \/ (xx /\ matches = {})) -> doc
      [] OTHER -> DocSet(doc, path, tree)
JsonSet(r, k, path, text, nx, xx) ==
    LET doc == loadJSON(Data(r), k) IN
    /\ path = <<>> \/ doc # NoDoc
    /\ Update(r, k, TRUE, applySet(doc, path, Parse(r, text), nx, xx), Len(text.elems))

JsonDel(r, k, path) ==
    LET doc == loadJSON(Data(r), k) IN
    Update(r, k, FALSE, DocDelete(doc, Select(doc, path)), 0)

(***************************************************************************)
(* NUMINCRBY, NUMMULTBY: integer arithmetic of the machine's width unless  *)
(* the check sees an overflow.                                             *)
(***************************************************************************)
Wrap(n) == ((n + IntMax + 1) % (2 * IntMax + 2)) - IntMax - 1
Quo(a, b) == LET q == (IF a < 0 THEN -a ELSE a) \div (IF b < 0 THEN -b ELSE b) IN
             Wrap(IF (a < 0) = (b < 0) THEN q ELSE -q)
applyNum(a, b, mul) ==
    LET exact == IF mul THEN a * b ELSE a + b
        r == Wrap(exact)
        overflows == IF mul THEN a # 0 /\ Quo(r, a) # b ELSE (r > a) # (b > 0)
    IN  IF overflows THEN exact ELSE r

Matches(doc, path, kind) == {p \in Select(doc, path) : Kind(doc, p) = kind}
NumOp(r, k, path, n, mul) ==
    LET doc == loadJSON(Data(r), k)
        results == [p \in Matches(doc, path, "number") |-> Number(applyNum(doc[p][2], n, mul))]
    IN  Update(r, k, FALSE, results @@ doc, 0)
Toggle(r, k, path) ==
    LET doc == loadJSON(Data(r), k) IN
    Update(r, k, FALSE, [p \in Matches(doc, path, "bool") |-> Bool(~doc[p][2])] @@ doc, 0)

Clear(r, k, path) ==
    LET doc == loadJSON(Data(r), k)
        emptied == Without(doc, UNION {Below(doc, p) \ {p} : p \in Select(doc, path)})
    IN  Update(r, k, FALSE, [p \in Matches(emptied, path, "number") |-> Number(0)] @@ emptied, 0)

(***************************************************************************)
(* JSON.ARRAPPEND and JSON.ARRINSERT of one value, where the path selects   *)
(* one array.                                                              *)
(***************************************************************************)
Arrays(doc, path) == Matches(doc, path, "array")
ArrAppend(r, k, path, node) ==
    LET doc == loadJSON(Data(r), k) IN
    /\ Cardinality(Arrays(doc, path)) = 1
    /\ Update(r, k, FALSE, AppendElem(doc, r, CHOOSE p \in Arrays(doc, path) : TRUE, node, 1), 1)
ArrInsert(r, k, path, i, node) ==
    LET doc == loadJSON(Data(r), k) at == CHOOSE p \in Arrays(doc, path) : TRUE
        n == Len(Elems(doc, at)) j == absIndex(i, n)
    IN  /\ Cardinality(Arrays(doc, path)) = 1
        /\ j >= 0 /\ j <= n
        /\ Update(r, k, FALSE, InsertElem(doc, r, at, j, node, 1), 1)

ArrPop(r, k, path, i) ==
    LET doc == loadJSON(Data(r), k)
        popped(p) ==
            LET els == Elems(doc, p) n == Len(els) IN
            IF n = 0 THEN {} ELSE {els[Min({Max({absIndex(i, n), 0}), n - 1}) + 1]}
    IN  Update(r, k, FALSE, Without(doc, UNION {popped(p) : p \in Arrays(doc, path)}), 0)
ArrTrim(r, k, path, start, stop) ==
    LET doc == loadJSON(Data(r), k)
        cut(p) ==
            LET els == Elems(doc, p) b == rangeBounds(start, stop, Len(els)) IN
            {els[j] : j \in {x \in DOMAIN els : ~(b[1] <= x - 1 /\ x - 1 <= b[2])}}
    IN  Update(r, k, FALSE, Without(doc, UNION {cut(p) : p \in Arrays(doc, path)}), 0)
=============================================================================
