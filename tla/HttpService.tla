----------------------------- MODULE HttpService -----------------------------
(***************************************************************************)
(* What a client may expect of the server: each request it sends is        *)
(* handled at most once and in its turn, and what comes back is one whole  *)
(* answer after the other, each of them to a request of its own that was   *)
(* handled, and no second one to the same request.                         *)
(***************************************************************************)
EXTENDS Naturals, Sequences

CONSTANTS Clients,
          Requests,  \* Requests[c]: the numbers of c's requests, in the order of sending
          InOrder    \* whether the answers come in that order

VARIABLES asked,     \* asked[c]: the requests of which c has sent something
          taken,     \* taken[c]: those that the application was given
          received   \* received[c]: the halves of answers that c has got

vars == <<asked, taken, received>>

Init ==
    /\ asked = [c \in Clients |-> {}] /\ taken = [c \in Clients |-> {}]
    /\ received = [c \in Clients |-> <<>>]

Whole(c) == Len(received[c]) % 2 = 0

\* Client c begins to send its next request.
Ask(c) ==
    /\ \E q \in Requests[c] \ asked[c] : /\ \A p \in asked[c] : p < q
                                        /\ asked' = [asked EXCEPT ![c] = @ \cup {q}]
    /\ UNCHANGED <<taken, received>>

\* A request is handled; those before it have been, or never will be.
Take(c) ==
    /\ \E q \in asked[c] \ taken[c] : /\ \A p \in taken[c] : p < q
                                     /\ taken' = [taken EXCEPT ![c] = @ \cup {q}]
    /\ UNCHANGED <<asked, received>>

Receive(c, q, part) == received' = [received EXCEPT ![c] = Append(@, [c |-> c, q |-> q, part |-> part])]

\* The first half of an answer comes, behind a whole one.
Begin(c) ==
    /\ Whole(c)
    /\ \E q \in taken[c] :
         /\ \A n \in DOMAIN received[c] : IF InOrder THEN received[c][n].q < q ELSE received[c][n].q # q
         /\ Receive(c, q, 1)
    /\ UNCHANGED <<asked, taken>>

\* The second half comes right behind the first.
Finish(c) ==
    /\ ~Whole(c)
    /\ Receive(c, received[c][Len(received[c])].q, 2)
    /\ UNCHANGED <<asked, taken>>

\* Each of these changes something, so the first conjunct adds nothing: with it a
\* stutter is recognised before the actions are tried.
Next ==
    /\ vars' # vars
    /\ \E c \in Clients : Ask(c) \/ Take(c) \/ Begin(c) \/ Finish(c)

Spec == Init /\ [][Next]_vars
=============================================================================
