---------------------------- MODULE MCDocuments -----------------------------
(***************************************************************************)
(* The documents of one kind from their files to the manifest (Documents). *)
(*                                                                         *)
(* The user writes a "default" and a document "x", each with one field of  *)
(* its own, in either order, or one of the two.                            *)
(***************************************************************************)
EXTENDS Naturals, Sequences, TLC

VARIABLES input, heap, docs, merged, checked, appended, saved, again, phase

-----------------------------------------------------------------------------
Nothing == [c \in {} |-> c]
Str(x) == <<"str", x>>
Num(x) == <<"int", x>>
Obj(f) == <<"obj", f>>
List(l) == <<"list", l>>
Flag(x) == Obj("_merge" :> x)
Item(name, n) == Obj([name |-> Str(name), v |-> Num(n)])

Plain(name) == "name" :> Str(name)
ShippedDefault == Obj(Plain("default") @@ [on |-> <<"bool", FALSE>>, opts |-> Obj([size |-> Num(1)]),
                                           items |-> List(<<Item("a", 1), Item("b", 1)>>)])
ShippedParent == Obj(Plain("p") @@ [opts |-> Obj([size |-> Num(2)]),
                                    items |-> List(<<Flag(<<"bool", TRUE>>), Item("a", 2)>>)])

Lists == {<<Flag(<<"bool", TRUE>>), Item("a", 4), Item("c", 4)>>, <<Flag(<<"bool", FALSE>>), Item("c", 4)>>,
          <<Flag(Str("other")), Item("c", 4)>>, <<Item("c", 4), Item("c", 5)>>, <<Str("yes")>>, <<>>,
          <<Flag(<<"bool", TRUE>>), Obj("name" :> Str("d") @@ "_merge" :> <<"bool", TRUE>>)>>}
Fields == {Nothing, "on" :> Str("yes"), "on" :> Num(1), "opts" :> Obj([size |-> Num(3), more |-> Str("no")]),
           "opts" :> Obj([size |-> Num(9)]), "extra" :> Obj([size |-> Num(3)]), "extra" :> Obj([size |-> Num(4)])}
          \cup {"items" :> List(l) : l \in Lists} \cup {"extra" :> List(l) : l \in Lists}
DefaultFields == Fields \ {"on" :> Num(1), "opts" :> Obj([size |-> Num(9)])}
Based == {Nothing, "based_on" :> Str("p"), "based_on" :> Str("x")}

Inputs ==
  LET default(f) == Obj(Plain("default") @@ "version" :> Str("old") @@ f)
      doc(f, b) == Obj(Plain("x") @@ f @@ b)
      files(d) == [shipped |-> <<ShippedDefault, ShippedParent>>, docs |-> d]
  IN {files(<<doc(f, b)>>) : f \in Fields, b \in Based}
     \cup {files(<<default(g)>>) : g \in DefaultFields}
     \cup {files(<<default(g), doc(f, b)>>) : g \in DefaultFields, f \in Fields, b \in {Nothing, "based_on" :> Str("p")}}
     \cup {files(<<doc(f, Nothing), default(g)>>) : g \in DefaultFields, f \in Fields}
SizeFits(text) == text[2]["opts"][2]["size"] # Num(9)

D == INSTANCE Documents WITH
       Valid <- SizeFits, Selectors <- {"default", "p", "other"}, Version <- Str("now")

-----------------------------------------------------------------------------
Init == D!Init
Next == D!Next

vars == <<input, heap, docs, merged, checked, appended, saved, again, phase>>
Spec == Init /\ [][Next]_vars

-----------------------------------------------------------------------------
(* The properties the modules state.                                       *)

(* A merged document says what laying its texts over each other says, and  *)
(* has lost no item the user names.                                        *)
MergedAsLayered == D!TypeOK /\ D!AsLayered /\ D!ItemsKept

(* What was merged and saved merges again into itself.                     *)
Remerged == D!Remerged

(* Appending a configuration changes no document of the command.           *)
AppendLeavesDocs == D!AppendLeavesDocs
=============================================================================
