---------------------------- MODULE ExportTriad ----------------------------
(***************************************************************************)
(* What the export of a Docker image promises about its three files: the   *)
(* owner sees the files that were there or the three files of one export,  *)
(* never a mixture, and an export replaces only what its user confirmed.   *)
(* Nothing is promised once somebody else interfered with a publication.   *)
(***************************************************************************)
CONSTANTS Files,
          Exports    \* numbers of exports
VARIABLES shown,      \* the content of each file, as the protocol answers for it
          confirmed,  \* the contents that the user agreed to replace
          disturbed   \* somebody else interfered

Triad(n) == [f \in Files |-> <<"export", n>>]

Init == ~disturbed /\ confirmed = shown /\ \A f \in Files : shown[f] \notin {"export"} \X Exports

\* Somebody else changes the directory.
Change ==
  /\ \A f \in Files : shown'[f] # shown[f] => shown'[f] \notin {"export"} \X Exports
  /\ UNCHANGED confirmed

Confirm == confirmed' = shown /\ UNCHANGED shown

Replace ==
  /\ shown = confirmed
  /\ \E n \in Exports : shown' = Triad(n)
  /\ UNCHANGED confirmed

Promised == Change \/ Confirm \/ Replace
Next == disturbed' \/ (UNCHANGED disturbed /\ Promised)
Spec == Init /\ [][Next]_<<shown, confirmed, disturbed>>
=============================================================================
