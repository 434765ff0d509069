------------------------------ MODULE ConChecker ------------------------------
(***************************************************************************)
(* con-checker (main.go): dials each configured connection in turn and     *)
(* sends one alert when one stops answering and one when it answers again, *)
(* remembering which it said last in the flag Raised.                      *)
(***************************************************************************)
EXTENDS CoreSwitch

VARIABLES
  cons,   \* the connections loaded: SQLite's, or the CSV file's when it has none
  raised, \* per connection: Raised
  down,   \* connections that do not answer
  checked, \* connections dialled in this round
  cpc     \* "off", "check", "wait"

conVars == <<cons, raised, down, checked, cpc>>

Con == "con"

\* A connection is a record: name, and alert, whether alerts are enabled for it.
ConTypeOK ==
  /\ raised \subseteq cons /\ down \subseteq cons /\ checked \subseteq cons
  /\ cpc \in {"off", "check", "wait"}

\* loadConnections: SQLite when it can be read, else the file.
LoadConnections(sqlite, csv) == IF sqlite # None THEN sqlite ELSE csv

ConInit(sqlite, csv, unreachable) ==
  /\ cons = LoadConnections(sqlite, csv)
  /\ raised = {} /\ down = {c \in cons : c.name \in unreachable} /\ checked = {}
  /\ cpc = IF cons = {} THEN "off" ELSE "check"

\* The alert a check leads to, if any: Raised changes either way.
Check(c, arrives) ==
  /\ cpc = "check" /\ c \in cons \ checked
  /\ checked' = checked \cup {c}
  /\ raised' = IF c \in down THEN raised \cup {c} ELSE raised \ {c}
  /\ IF c.alert /\ raised' # raised
       THEN /\ cpc' = "wait"
            /\ IF arrives
                 THEN SendAlert(Con, IF c \in down THEN "cannot connect" ELSE "restored")
                 ELSE Lost(Con)
       ELSE UNCHANGED <<coreVars, cpc>>
  /\ UNCHANGED <<cons, down>>

ConAnswered ==
  /\ cpc = "wait" /\ waiting[Con] = 0
  /\ cpc' = "check"
  /\ UNCHANGED <<coreVars, cons, raised, down, checked>>

\* time.Sleep, and the next round.
NextRound ==
  /\ cpc = "check" /\ checked = cons
  /\ checked' = {}
  /\ UNCHANGED <<coreVars, cons, raised, down, cpc>>

\* A peer stops answering, or answers again.
PeerChanges(c) ==
  /\ c \in cons
  /\ down' = IF c \in down THEN down \ {c} ELSE down \cup {c}
  /\ UNCHANGED <<coreVars, cons, raised, checked, cpc>>

ConStep ==
  \/ \E c \in cons, arrives \in BOOLEAN : Check(c, arrives)
  \/ ConAnswered \/ NextRound
=============================================================================
