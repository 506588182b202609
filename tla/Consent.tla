------------------------------- MODULE Consent -------------------------------
(***************************************************************************)
(* What an approval gate promises (approvals.py:27-43), whatever carries   *)
(* the question and the answer: a request is granted at most once, in its  *)
(* time, because somebody said yes to exactly that action with exactly     *)
(* those arguments.  Everything else refuses it, silence included.         *)
(***************************************************************************)
EXTENDS Naturals, Sequences

CONSTANT Requests   \* actions with their arguments

VARIABLES
  asked,   \* the requests put to people, in order: what is asked, how it stands
  said,    \* answers people have given, each about something asked
  late     \* requests whose deadline has passed

cvars == <<asked, said, late>>

CInit ==
  /\ asked = <<>>
  /\ said = {}
  /\ late = {}

CAsk(q) ==
  /\ asked' = Append(asked, [what |-> q, state |-> "waiting"])
  /\ UNCHANGED <<said, late>>

CSay(n, verdict) ==
  /\ said' = said \cup {[what |-> asked[n].what, verdict |-> verdict]}
  /\ UNCHANGED <<asked, late>>

CExpire(n) ==
  /\ late' = late \cup {n}
  /\ UNCHANGED <<asked, said>>

CGrant(n) ==
  /\ asked[n].state = "waiting"
  /\ n \notin late
  /\ [what |-> asked[n].what, verdict |-> "approve"] \in said
  /\ asked' = [asked EXCEPT ![n].state = "granted"]
  /\ UNCHANGED <<said, late>>

CRefuse(n) ==
  /\ asked[n].state = "waiting"
  /\ asked' = [asked EXCEPT ![n].state = "refused"]
  /\ UNCHANGED <<said, late>>

CNext ==
  \/ \E q \in Requests : CAsk(q)
  \/ \E n \in 1..Len(asked) :
       \/ \E verdict \in {"approve", "decline"} : CSay(n, verdict)
       \/ CExpire(n) \/ CGrant(n) \/ CRefuse(n)

ConsentSpec == CInit /\ [][CNext]_cvars
=============================================================================
