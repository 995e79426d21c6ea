------------------------------- MODULE MCFuzz -------------------------------
(* Two corpus files and two or three runs of up to three mutations each, so *)
(* that the runs may or may not be more than the files.  The target has     *)
(* three segments, the second longer than that of one file and the third    *)
(* without file bytes; the other file has one segment only.                 *)
EXTENDS Fuzz, TLC

CONSTANTS f1, f2, target
MCCorpus == {f1, f2}
MCSegSizes == (f1 :> <<1, 1>>) @@ (f2 :> <<1>>) @@ (target :> <<1, 2, 0>>)
MCContents == [f \in MCCorpus \cup {target} |-> [p \in Positions(f) |-> 2]]
=============================================================================
