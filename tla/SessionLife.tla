---------------------------- MODULE SessionLife ----------------------------
(***************************************************************************)
(* What users are promised of their sessions: one is opened by the         *)
(* password of that moment, keeps opening the application only while that  *)
(* password is the account's (a change made from the session itself        *)
(* carries it over), and once closed never opens anything again.           *)
(***************************************************************************)
CONSTANT Ids

VARIABLES
  life,     \* "none", "open" or "closed"
  current   \* sessions that belong to the present password of their account

vars == <<life, current>>

Init == life \in [Ids -> {"none", "open"}] /\ current = {s \in Ids : life[s] = "open"}

Open(s)  == life[s] = "none" /\ life'[s] = "open" /\ s \in current'
Close(s) == life[s] = "open" /\ life'[s] = "closed"
Stay(s)  == life'[s] = life[s] /\ (life[s] = "open" => s \in current')

\* One login may close others' place; a session that lost its password never
\* gets it back.
Next ==
  /\ life' \in [Ids -> {"none", "open", "closed"}]
  /\ \A s \in Ids : Open(s) \/ Close(s) \/ Stay(s)
  /\ \A s \in current' \ current : Open(s)

Spec == Init /\ [][Next]_vars
=============================================================================
