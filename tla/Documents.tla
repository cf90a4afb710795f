----------------------------- MODULE Documents ------------------------------
(***************************************************************************)
(* The user's documents of one kind, from the file they are written in to  *)
(* the documents a command works on: DefaultMerger lays each of them over  *)
(* the defaults shipped with LambdaStack, SchemaValidator checks the       *)
(* results, ConfigurationAppender lays the user's "default" under a        *)
(* shipped configuration, and an upgrade lays a saved result over the      *)
(* defaults again (documents of two kinds never meet).                     *)
(*                                                                         *)
(* Python's dictionaries and lists are shared by reference, so a document  *)
(* lives in a heap: a value is a pair <<type, datum>>, the datum of an     *)
(* "obj" or a "list" is the place in the heap of its fields or items.  A   *)
(* text - a document as a file holds it - is the same with the fields or   *)
(* the items themselves in the place of the reference.                     *)
(***************************************************************************)
EXTENDS Naturals, Sequences, SequencesExt, FiniteSets, FiniteSetsExt

CONSTANTS
  Inputs,     \* [shipped, docs]: the texts of the shipped and of the user's documents
  Valid(_),   \* does the schema of the kind accept this text?
  Selectors,  \* the configurations a component of the cluster may select
  Version     \* the text cli.version puts into a document

VARIABLES
  input,      \* the files: what is shipped and what the user wrote
  heap,       \* the fields of each dictionary, the items of each list
  docs,       \* the user's documents, as places in the heap
  merged,     \* the merged documents, as places in the heap
  checked,    \* how many of them SchemaValidator has passed
  appended,   \* the document appended for a selector, as a text
  saved,      \* the merged documents as the manifest holds them, as texts
  again,      \* the documents merged once more by an upgrade, as texts
  phase       \* "merge", "validate", "append", "upgrade", "done" or "failed"
vars == <<input, heap, docs, merged, checked, appended, saved, again, phase>>

Name(text) == text[2]["name"][2]
IsObj(v) == v[1] = "obj"
IsList(v) == v[1] = "list"

-----------------------------------------------------------------------------
(* Reading and writing files *)

RECURSIVE Store(_, _)
Store(h, text) ==   \* a heap with the text in it, and the value that stands for it
  LET next(c, s) == LET child == Store(s.h, text[2][c])
                    IN [h |-> child.h, vs |-> c :> child.v @@ s.vs]
      all == FoldSet(next, [h |-> h, vs |-> <<>>], DOMAIN text[2])
      node == IF IsObj(text) THEN all.vs ELSE [i \in DOMAIN text[2] |-> all.vs[i]]
  IN IF IsObj(text) \/ IsList(text)
       THEN [h |-> Append(all.h, node), v |-> <<text[1], Len(all.h) + 1>>]
       ELSE [h |-> h, v |-> text]

RECURSIVE Text(_, _)
Text(h, v) == IF IsObj(v) \/ IsList(v)
                THEN <<v[1], [c \in DOMAIN h[v[2]] |-> Text(h, h[v[2]][c])]>>
                ELSE v

StoreAll(h, texts) ==
  FoldLeft(LAMBDA s, t : LET one == Store(s.h, t) IN [h |-> one.h, at |-> Append(s.at, one.v[2])],
           [h |-> h, at |-> <<>>], texts)

DocText(h, d) == Text(h, <<"obj", d>>)

-----------------------------------------------------------------------------
(* objdict_helpers.  s is [ok, h]: whether no exception was raised, and the *)
(* heap; a and b are the dictionaries merged into and merged from.          *)

Raise(s) == [s EXCEPT !.ok = FALSE]
Put(s, a, k, v) == [s EXCEPT !.h[a] = k :> v @@ @]

Has(h, v, k) == IsObj(v) /\ k \in DOMAIN h[v[2]]
NameOf(h, v) == h[v[2]]["name"]
IsNamedList(h, l) == \A i \in DOMAIN l : Has(h, l[i], "name") \/ Has(h, l[i], "_merge")
NamesRepeat(h, l) ==
  \E i, j \in DOMAIN l : i # j /\ Has(h, l[i], "name") /\ Has(h, l[j], "name")
                         /\ NameOf(h, l[i]) = NameOf(h, l[j])

NewItemsUnmatched(h, to, from) ==   \* slip: appends without looking for a match
  SelectSeq(from, LAMBDA e : ~Has(h, e, "_merge"))
(* The strategy of a list is the flag of its first flagged item; items     *)
(* that carry a flag are never appended.                                   *)
NewItems(h, to, from) ==
  SelectSeq(from, LAMBDA e : ~Has(h, e, "_merge")
                             /\ \A i \in DOMAIN to : NameOf(h, to[i]) # NameOf(h, e))

RECURSIVE MergeObjdict(_, _, _)
ExtendList(s, at, from) ==
  LET to == s.h[at]
      matches(i) == {j \in DOMAIN from : Has(s.h, from[j], "name")
                                         /\ NameOf(s.h, from[j]) = NameOf(s.h, to[i])}
      each(t, i) == IF Cardinality(matches(i)) = 1
                      THEN MergeObjdict(t, to[i][2], from[CHOOSE j \in matches(i) : TRUE][2])
                      ELSE t
      out == FoldLeft(each, s, [i \in DOMAIN to |-> i])
  IN IF /\ \E i \in DOMAIN to : ~Has(s.h, to[i], "name")
        /\ \E j \in DOMAIN from : Has(s.h, from[j], "name")
       THEN Raise(s)
       ELSE [out EXCEPT !.h[at] = to \o NewItems(s.h, to, from)]

MergeList(s, a, k, val) ==
  LET to == s.h[s.h[a][k][2]]
      from == s.h[val[2]]
      flags == SelectSeq(from, LAMBDA e : Has(s.h, e, "_merge"))
      flag == IF flags = <<>> THEN <<"bool", FALSE>> ELSE s.h[flags[1][2]]["_merge"]
      named == SelectSeq(from, LAMBDA e : Has(s.h, e, "name"))
  IN CASE ~(IsNamedList(s.h, to) /\ IsNamedList(s.h, from)) -> Put(s, a, k, val)
       [] OTHER ->
            CASE flag[1] # "bool" \/ NamesRepeat(s.h, to) \/ NamesRepeat(s.h, from) -> Raise(s)
              [] flag = <<"bool", TRUE>> -> ExtendList(s, s.h[a][k][2], from)
              [] OTHER -> Put([s EXCEPT !.h = Append(@, named)], a, k, <<"list", Len(s.h) + 1>>)

MergeKey(s, a, b, k) ==
  LET val == s.h[b][k]
      to == s.h[a][k]
  IN CASE ~s.ok -> s
       [] s.ok /\ k \notin DOMAIN s.h[a] -> Put(s, a, k, val)
       [] s.ok /\ k \in DOMAIN s.h[a] ->
            CASE IsObj(to) /\ IsObj(val) -> MergeObjdict(s, to[2], val[2])
              [] IsList(to) /\ IsList(val) -> MergeList(s, a, k, val)
              [] to[1] = val[1] /\ ~IsObj(to) /\ ~IsList(to) -> Put(s, a, k, val)
              [] OTHER -> Raise(s)

MergeObjdict(s, a, b) ==
  FoldSet(LAMBDA k, t : MergeKey(t, a, b, k), s, DOMAIN s.h[b])

(* A field that says yes or no becomes a boolean; an item of a list stays. *)
Booleans(v) == CASE v = <<"str", "yes">> -> <<"bool", TRUE>>
                 [] v = <<"str", "no">> -> <<"bool", FALSE>>
                 [] OTHER -> v
RECURSIVE ReplaceYesNo(_, _)
ReplaceYesNo(h, v) ==
  LET fields == IF IsObj(v) THEN [h EXCEPT ![v[2]] = [k \in DOMAIN @ |-> Booleans(@[k])]] ELSE h
  IN IF IsObj(v) \/ IsList(v)
       THEN FoldSet(LAMBDA c, g : ReplaceYesNo(g, g[v[2]][c]), fields, DOMAIN h[v[2]])
       ELSE h

-----------------------------------------------------------------------------
(* DefaultMerger and config_merger.  files are the shipped documents, just  *)
(* read, own the documents the user's "default" is looked for among; the    *)
(* result adds the place of the merged document.                            *)

SelectFirst(h, places, name) ==
  LET found == SelectSeq(places, LAMBDA d : h[d]["name"] = <<"str", name>>)
  IN IF found = <<>> THEN 0 ELSE Head(found)

MergeOptionalNever(s, a, b) == s   \* slip: forgets the user's "default"
MergeOptional(s, a, b) == IF b = 0 THEN s ELSE MergeObjdict(s, a, b)

RECURSIVE MergeParent(_, _, _, _)
MergeParent(s, files, own, doc) ==
  LET basedOn == "based_on" \in DOMAIN s.h[doc]
      parent == SelectFirst(s.h, files, s.h[doc]["based_on"][2])
      under == IF basedOn /\ parent # 0 THEN MergeParent(s, files, own, parent)
               ELSE LET default == SelectFirst(s.h, files, "default")
                    IN [s |-> MergeOptional(s, default, SelectFirst(s.h, own, "default")),
                        at |-> default]
  IN IF basedOn /\ parent = 0 THEN [s |-> Raise(s), at |-> doc]
     ELSE IF ~under.s.ok THEN under
     ELSE [s |-> MergeObjdict(Put(under.s, under.at, "version", Version), under.at, doc),
           at |-> under.at]

(* merge_with_defaults works on a deep copy of the user's "default".        *)
CopyOfReference(h, doc) == [h |-> h, v |-> <<"obj", doc>>]   \* slip: no copy at all
CopyOf(h, doc) == Store(h, DocText(h, doc))
MergeWithDefaults(h, files, selector) ==
  LET config == SelectFirst(h, files, selector)
      default == SelectFirst(h, files, "default")
      own == SelectFirst(h, merged, "default")
      copy == CopyOf(h, own)
      under == IF own = 0 THEN [ok |-> TRUE, h |-> h]
               ELSE MergeObjdict([ok |-> TRUE, h |-> copy.h], default, copy.v[2])
  IN CASE selector = "default" -> [s |-> [ok |-> TRUE, h |-> h], at |-> config]
       [] selector # "default" /\ (config = 0 \/ ~under.ok) -> [s |-> Raise(under), at |-> default]
       [] OTHER -> [s |-> Put(MergeObjdict(under, default, config), default, "version", Version),
                    at |-> default]

-----------------------------------------------------------------------------
(* The command *)

(* DefaultMerger for one document in heap h, over defaults read afresh.    *)
Merging(h, own, doc) ==
  LET files == StoreAll(ReplaceYesNo(h, <<"obj", doc>>), input.shipped)
  IN MergeParent([ok |-> TRUE, h |-> files.h], files.at, own, doc)

Init ==
  /\ input \in Inputs
  /\ LET all == StoreAll(<<>>, input.docs) IN heap = all.h /\ docs = all.at
  /\ merged = <<>> /\ checked = 0 /\ appended = <<>> /\ saved = <<>> /\ again = <<>>
  /\ phase = "merge"

Fail == phase' = "failed" /\ UNCHANGED <<heap, merged, checked, appended, saved, again>>

(* DefaultMerger.run: the next document.                                   *)
Merge ==
  /\ phase = "merge"
  /\ LET r == Merging(heap, docs, docs[Len(merged) + 1])
     IN \/ /\ r.s.ok
           /\ heap' = r.s.h /\ merged' = Append(merged, r.at)
           /\ phase' = IF Len(merged') = Len(docs) THEN "validate" ELSE "merge"
           /\ UNCHANGED <<checked, appended, saved, again>>
        \/ ~r.s.ok /\ Fail
  /\ UNCHANGED <<input, docs>>

(* SchemaValidator.run: yes and no are replaced once more, in the results. *)
Validate ==
  /\ phase = "validate"
  /\ LET doc == merged[checked + 1]
         h == ReplaceYesNo(heap, <<"obj", doc>>)
     IN \/ /\ Valid(DocText(h, doc))
           /\ heap' = h /\ checked' = checked + 1
           /\ phase' = IF checked' = Len(merged) THEN "append" ELSE "validate"
           /\ UNCHANGED <<merged, appended, saved, again>>
        \/ ~Valid(DocText(h, doc)) /\ Fail
  /\ UNCHANGED <<input, docs>>

(* ConfigurationAppender.run, for a component that selects a configuration *)
(* the user wrote no document for.                                         *)
AppendConfig ==
  /\ phase = "append" /\ appended = <<>>
  /\ \E selector \in Selectors :
       /\ SelectFirst(heap, merged, selector) = 0
       /\ LET files == StoreAll(heap, input.shipped)
              r == MergeWithDefaults(files.h, files.at, selector)
          IN \/ /\ r.s.ok
                /\ heap' = r.s.h /\ appended' = DocText(r.s.h, r.at)
                /\ UNCHANGED <<merged, checked, saved, again, phase>>
             \/ ~r.s.ok /\ Fail
  /\ UNCHANGED <<input, docs>>

(* The results are saved to the manifest; nothing else outlives the        *)
(* command.                                                                *)
Save ==
  /\ phase = "append"
  /\ saved' = [i \in DOMAIN merged |-> DocText(heap, merged[i])]
  /\ phase' = "upgrade" /\ heap' = <<>> /\ docs' = <<>> /\ merged' = <<>>
  /\ UNCHANGED <<input, checked, appended, again>>

(* Later an upgrade reads them and merges each, alone, over the defaults   *)
(* (AnsibleVarsGenerator.write_role_manifest_vars).                        *)
Upgrade ==
  /\ phase = "upgrade"
  /\ LET one == StoreAll(<<>>, <<saved[Len(again) + 1]>>)
         r == Merging(one.h, one.at, one.at[1])
     IN \/ /\ r.s.ok
           /\ again' = Append(again, DocText(r.s.h, r.at))
           /\ phase' = IF Len(again') = Len(saved) THEN "done" ELSE "upgrade"
           /\ UNCHANGED <<heap, merged, checked, appended, saved>>
        \/ ~r.s.ok /\ Fail
  /\ UNCHANGED <<input, docs>>

Next == Merge \/ Validate \/ AppendConfig \/ Save \/ Upgrade
Spec == Init /\ [][Next]_vars

-----------------------------------------------------------------------------
(* What merging is for, on texts: no heap, no order                        *)

NamedText(v) == IsObj(v) /\ "name" \in DOMAIN v[2]
FlaggedText(v) == IsObj(v) /\ "_merge" \in DOMAIN v[2]
Items(v) == {v[2][i] : i \in DOMAIN v[2]}
AllNamed(l) == \A e \in Items(l) : NamedText(e) \/ FlaggedText(e)

RECURSIVE Over(_, _)
Over(below, above) ==   \* the text above, laid over the text below
  LET flags == SelectSeq(above[2], FlaggedText)
      extends == flags # <<>> /\ flags[1][2]["_merge"] = <<"bool", TRUE>>
      same(i) == {e \in Items(above) : NamedText(e) /\ Name(e) = Name(below[2][i])}
      isNew(e) == ~FlaggedText(e) /\ Name(e) \notin {Name(b) : b \in Items(below)}
  IN IF IsObj(below)
       THEN <<"obj", [k \in DOMAIN below[2] \cup DOMAIN above[2] |->
                       IF k \notin DOMAIN above[2] THEN below[2][k]
                       ELSE IF k \notin DOMAIN below[2] THEN above[2][k]
                       ELSE Over(below[2][k], above[2][k])]>>
     ELSE IF ~IsList(below) \/ ~AllNamed(below) \/ ~AllNamed(above) THEN above
     ELSE IF ~extends THEN <<"list", SelectSeq(above[2], NamedText)>>
     ELSE <<"list", [i \in DOMAIN below[2] |->
                      IF same(i) = {} THEN below[2][i]
                      ELSE Over(below[2][i], CHOOSE e \in same(i) : TRUE)]
                    \o SelectSeq(above[2], isNew)>>

RECURSIVE YesNoText(_)
YesNoText(v) == CASE IsObj(v) -> <<"obj", [k \in DOMAIN v[2] |-> YesNoText(Booleans(v[2][k]))]>>
                  [] IsList(v) -> <<"list", [i \in DOMAIN v[2] |-> YesNoText(v[2][i])]>>
                  [] OTHER -> v

TextNamed(texts, name) == CHOOSE t \in ToSet(texts) : Name(t) = name
OwnDefault == {t \in ToSet(input.docs) : Name(t) = "default"}
WithVersion(t) == Over(t, <<"obj", [c \in {"version"} |-> Version]>>)

Layered(i) ==
  LET doc == YesNoText(input.docs[i])
      shipped == TextNamed(input.shipped, "default")
      default == WithVersion(IF OwnDefault = {} THEN shipped
                             ELSE Over(shipped, YesNoText(CHOOSE t \in OwnDefault : TRUE)))
  IN IF "based_on" \in DOMAIN doc[2]
       THEN Over(WithVersion(Over(default, TextNamed(input.shipped, doc[2]["based_on"][2]))), doc)
       ELSE Over(default, doc)

(* The user's "default" brings no dictionary or item of its own that a     *)
(* merged document could share with it.                                    *)
RECURSIVE Shares(_, _)
Shares(below, above) ==
  \/ IsObj(below) /\ \E k \in DOMAIN above[2] :
       /\ IsObj(above[2][k]) \/ IsList(above[2][k])
       /\ k \in DOMAIN below[2] => Shares(below[2][k], above[2][k])
  \/ IsList(below) /\ \E e \in Items(above) :
       IsObj(e) /\ \A b \in Items(below) :
         ~(NamedText(b) /\ NamedText(e)) \/ Name(b) # Name(e) \/ Shares(b, e)

-----------------------------------------------------------------------------
(* Properties *)

References(h) == {v \in UNION {{h[d][c] : c \in DOMAIN h[d]} : d \in DOMAIN h} : IsObj(v) \/ IsList(v)}

(* Every reference leads to a place of the heap, the merged documents are  *)
(* the user's in the user's order and under their names, and every field   *)
(* the shipped default knows keeps its type.                               *)
TypeOK ==
  /\ phase \in {"merge", "validate", "append", "upgrade", "done", "failed"}
  /\ \A v \in References(heap) : v[2] \in DOMAIN heap
  /\ checked \in 0..Len(input.docs) /\ Len(again) <= Len(saved)
  /\ \A i \in DOMAIN merged :
       /\ heap[merged[i]]["name"] = <<"str", Name(input.docs[i])>>
       /\ LET shipped == TextNamed(input.shipped, "default")[2]
          IN \A k \in DOMAIN shipped : heap[merged[i]][k][1] = shipped[k][1]

(* A merged document says what laying the shipped default, the user's      *)
(* "default", the document it is based on and itself over each other says, *)
(* and goes on saying it while the documents after it are merged, where    *)
(* the user's "default" gives merged documents nothing to share.           *)
AsLayered ==
  (\A t \in OwnDefault : ~Shares(TextNamed(input.shipped, "default"), YesNoText(t)))
  => \A i \in DOMAIN merged : YesNoText(DocText(heap, merged[i])) = Layered(i)

(* No item the user names, without a flag on the item itself, is lost from *)
(* a list of the merged document, whatever is merged after it.             *)
ItemsKept ==
  \A i \in DOMAIN merged :
    LET doc == input.docs[i][2]
        result == DocText(heap, merged[i])[2]
    IN \A k \in {k \in DOMAIN doc : IsList(doc[k])} :
         \A e \in {e \in Items(doc[k]) : NamedText(e) /\ ~FlaggedText(e)} :
           \E r \in Items(result[k]) : NamedText(r) /\ Name(r) = Name(e)

(* Laying the user's "default" under a shipped configuration changes none  *)
(* of the documents the command goes on to save and configure from.        *)
AppendLeavesDocs ==
  [][appended' # appended =>
       \A i \in DOMAIN merged : DocText(heap', merged[i]) = DocText(heap, merged[i])]_vars

(* Documents that were merged and saved with tidy lists - no flag left in  *)
(* them, no name twice - merge again, each into itself: an upgrade renders *)
(* what the apply saved.  (Other lists are checked as the user wrote them  *)
(* only where the shipped default has a named list.)                       *)
Tidy(text) ==
  \A k \in {k \in DOMAIN text[2] : IsList(text[2][k])} :
    LET l == text[2][k][2]
    IN \A i, j \in DOMAIN l : /\ ~FlaggedText(l[i])
                              /\ NamedText(l[i]) /\ NamedText(l[j]) /\ Name(l[i]) = Name(l[j]) => i = j
Remerged ==
  (\A t \in ToSet(saved) : Tidy(t)) =>
    /\ saved # <<>> => phase # "failed"
    /\ \A i \in DOMAIN again : again[i] = saved[i]
=============================================================================
