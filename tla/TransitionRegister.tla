------------------------- MODULE TransitionRegister -------------------------
(***************************************************************************)
(* What a repository of immutable transitions promises its callers, as if  *)
(* they came one at a time: a transition is recorded once and never        *)
(* changes, offering it again finds it, offering another content under its *)
(* identity or its id is refused, and a correction follows the transition  *)
(* it supersedes.  A call that ends in an error may have been recorded.    *)
(***************************************************************************)
EXTENDS Sequences, Naturals

CONSTANTS Clients, Requests, None

VARIABLES
  register,  \* the rows, in the order they were recorded
  calls      \* what each client asks, and the answer it got

vars == <<register, calls>>

Row(request) == [id |-> request.item.id, identity |-> request.item.identity,
                 content |-> request.item.content, supersedes |-> request.supersedes]

Recorded(id) == \E n \in DOMAIN register : register[n].id = id
New(row) == \A n \in DOMAIN register :
  register[n].id # row.id /\ register[n].identity # row.identity
Follows(row) == row.supersedes = None \/ Recorded(row.supersedes)

\* A recorded row that says the same as this one; an addition does not ask
\* what the recorded one supersedes.
Repeats(n, row) ==
  /\ register[n].identity = row.identity /\ register[n].content = row.content
  /\ row.supersedes \in {None, register[n].supersedes}

Answered(c, answer) == calls' = [calls EXCEPT ![c].answer = answer]

Ask(c, request) ==
  /\ calls[c].answer # "pending"
  /\ calls' = [calls EXCEPT ![c] = [request |-> request, answer |-> "pending"]]
  /\ UNCHANGED register

\* The acknowledgement may be lost.
Record(c) ==
  LET row == Row(calls[c].request)
  IN /\ calls[c].answer = "pending"
     /\ New(row) /\ Follows(row)
     /\ register' = Append(register, row)
     /\ \E answer \in {"created", "error"} : Answered(c, answer)

Find(c) ==
  /\ calls[c].answer = "pending"
  /\ \E n \in DOMAIN register : Repeats(n, Row(calls[c].request))
  /\ Answered(c, "existing")
  /\ UNCHANGED register

\* Another row has the identity, or there is nothing to supersede.
Refuse(c) ==
  LET row == Row(calls[c].request)
  IN /\ calls[c].answer = "pending"
     /\ \/ \E n \in DOMAIN register : register[n].identity = row.identity /\ ~Repeats(n, row)
        \/ ~Follows(row)
     /\ Answered(c, "conflict")
     /\ UNCHANGED register

Fail(c) ==
  /\ calls[c].answer = "pending"
  /\ Answered(c, "error")
  /\ UNCHANGED register

RegisterInit ==
  /\ register = <<>>
  /\ calls = [c \in Clients |-> [request |-> None, answer |-> "none"]]

RegisterNext ==
  \E c \in Clients :
    \/ \E request \in Requests : Ask(c, request)
    \/ Record(c) \/ Find(c) \/ Refuse(c) \/ Fail(c)

RegisterSpec == RegisterInit /\ [][RegisterNext]_vars
=============================================================================
