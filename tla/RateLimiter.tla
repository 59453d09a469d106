------------------------------ MODULE RateLimiter ------------------------------
(***************************************************************************)
(* The sliding-window limiter that all providers share                     *)
(* (utils/rate_limiter.py): a caller reserves an estimate, calls the API   *)
(* and corrects its reservation.  Callers wait without a queue: each       *)
(* sleeps as long as it computed and looks again.                          *)
(*                                                                         *)
(* Time is counted in ticks of at least the half second that is the        *)
(* shortest sleep, and kept as the age of each reservation; an age of      *)
(* Window or more is expired, and ages stop there.                         *)
(***************************************************************************)
EXTENDS Integers, FiniteSets, Sequences, SequencesExt, FiniteSetsExt

CONSTANTS
    Callers,        \* the threads that call a provider
    Limit,          \* TOKEN_LIMIT_PER_MINUTE as read at startup
    Window,         \* _RATE_WINDOW_SECONDS
    Estimates, Actuals,
    MaxRequests     \* bound on the requests of all callers together

ASSUME LimiterAssumption ==
    /\ Limit \in Nat \ {0} /\ Window \in Nat \ {0} /\ MaxRequests \in Nat
    /\ Estimates \subseteq Nat \ {0} /\ Actuals \subseteq Nat

VARIABLES
    usage,          \* _usage: the reservations, in the order of their times
    pc,             \* idle, waiting for capacity, or calling the API
    needed,         \* estimated_tokens
    sleep,          \* ticks that a waiting caller still sleeps
    reservation,    \* reservation_id, for record_actual
    requests,       \* reservations made so far
    granted         \* history: the reservations, by their identities

vars == <<usage, pc, needed, sleep, reservation, requests, granted>>

Init ==
    /\ usage = <<>>
    /\ pc = [c \in Callers |-> "idle"]
    /\ needed = [c \in Callers |-> 0]
    /\ sleep = [c \in Callers |-> 0]
    /\ reservation = [c \in Callers |-> 0]
    /\ requests = 0
    /\ granted = <<>>

-----------------------------------------------------------------------------

\* The sum of a sequence of numbers; the proofs unfold its recursion.
Total(numbers) ==
    LET sum[i \in 0..Len(numbers)] ==
            IF i = 0 THEN 0 ELSE sum[i - 1] + numbers[i]
    IN  sum[Len(numbers)]

SumTokens(entries) == Total([i \in DOMAIN entries |-> entries[i].tokens])

Expired(e) == e.age >= Window

\* Mutant: an entry is dropped one tick before it leaves the window.
EvictedEarly ==
    LET i == SelectInSeq(usage, LAMBDA e : e.age < Window - 1)
    IN  IF i = 0 THEN <<>> ELSE SubSeq(usage, i, Len(usage))

\* _evict_expired: from the front, up to the first entry that is live.
Evicted ==
    LET i == SelectInSeq(usage, LAMBDA e : ~Expired(e))
    IN  IF i = 0 THEN <<>> ELSE SubSeq(usage, i, Len(usage))

\* Headroom once the first i entries have expired.
FitsWithout(entries, i, tokens) ==
    SumTokens(entries) - SumTokens(SubSeq(entries, 1, i)) + tokens <= Limit

\* Mutant: always waits for the oldest entry to expire.
UntilOldestExpires(entries, tokens) ==
    IF entries = <<>> THEN 0 ELSE Window - entries[1].age

\* _seconds_until_free: until the first entry expires that makes room.
SecondsUntilFree(entries, tokens) ==
    LET enough == {i \in DOMAIN entries : FitsWithout(entries, i, tokens)}
        i == IF enough = {} THEN 1 ELSE Min(enough)
    IN  IF entries = <<>> THEN 0 ELSE Window - entries[i].age

-----------------------------------------------------------------------------

\* A provider asks for capacity.
Ask(c, estimate) ==
    /\ pc[c] = "idle"
    /\ requests + Cardinality({d \in Callers : pc[d] = "waiting"}) < MaxRequests
    /\ pc' = [pc EXCEPT ![c] = "waiting"]
    /\ needed' = [needed EXCEPT ![c] = estimate]
    /\ UNCHANGED <<usage, sleep, reservation, requests, granted>>

\* The entry of a new reservation, with an identity of its own.
Reserve(c, entries) ==
    /\ requests' = requests + 1
    /\ usage' = Append(entries,
                       [age |-> 0, tokens |-> needed[c], id |-> requests'])
    /\ reservation' = [reservation EXCEPT ![c] = requests']
    /\ granted' = Append(granted, [age |-> 0, estimate |-> needed[c],
                                   tokens |-> needed[c]])
    /\ pc' = [pc EXCEPT ![c] = "calling"]
    /\ UNCHANGED <<needed, sleep>>

\* Mutant: it waits like any other.
BypassLoops(c) ==
    /\ pc[c] = "waiting" /\ sleep[c] = 0
    /\ needed[c] > Limit
    /\ usage' = Evicted
    /\ sleep' = [sleep EXCEPT ![c] = SecondsUntilFree(Evicted, needed[c])]
    /\ UNCHANGED <<pc, needed, reservation, requests, granted>>

\* An estimate that never fits is not made to wait.
Bypass(c) ==
    /\ pc[c] = "waiting"
    /\ needed[c] > Limit
    /\ Reserve(c, usage)

Secure(c) ==
    /\ pc[c] = "waiting" /\ sleep[c] = 0
    /\ needed[c] <= Limit
    /\ SumTokens(Evicted) + needed[c] <= Limit
    /\ Reserve(c, Evicted)

WaitAgain(c) ==
    /\ pc[c] = "waiting" /\ sleep[c] = 0
    /\ needed[c] <= Limit
    /\ SumTokens(Evicted) + needed[c] > Limit
    /\ usage' = Evicted
    /\ sleep' = [sleep EXCEPT ![c] = SecondsUntilFree(Evicted, needed[c])]
    /\ UNCHANGED <<pc, needed, reservation, requests, granted>>

\* Mutant: the reservation is found by its token count.
CorrectedByCount(id, tokens) ==
    LET i == SelectInSeq(usage, LAMBDA e :
                 e.tokens = granted[id].estimate)
    IN  IF i = 0 THEN usage ELSE [usage EXCEPT ![i].tokens = tokens]

Corrected(id, tokens) ==
    LET i == SelectInSeq(usage, LAMBDA e : e.id = id)
    IN  IF i = 0 THEN usage ELSE [usage EXCEPT ![i].tokens = tokens]

\* The caller and its local variables are gone.
Done(c) ==
    /\ pc' = [pc EXCEPT ![c] = "idle"]
    /\ needed' = [needed EXCEPT ![c] = 0]
    /\ reservation' = [reservation EXCEPT ![c] = 0]

\* record_actual, when the API has answered.
Record(c, actual) ==
    /\ pc[c] = "calling"
    /\ usage' = Corrected(reservation[c], actual)
    /\ granted' = [granted EXCEPT ![reservation[c]].tokens = actual]
    /\ Done(c)
    /\ UNCHANGED <<sleep, requests>>

\* The API call raises; the reservation keeps its estimate.
CallFails(c) ==
    /\ pc[c] = "calling"
    /\ Done(c)
    /\ UNCHANGED <<usage, sleep, requests, granted>>

Older(e) == [e EXCEPT !.age = IF @ < Window THEN @ + 1 ELSE @]

Tick ==
    /\ usage' = [i \in DOMAIN usage |-> Older(usage[i])]
    /\ granted' = [i \in DOMAIN granted |-> Older(granted[i])]
    /\ sleep' = [c \in Callers |-> IF sleep[c] > 0 THEN sleep[c] - 1 ELSE 0]
    /\ UNCHANGED <<pc, needed, reservation, requests>>

Next ==
    \/ \E c \in Callers :
           \/ \E estimate \in Estimates : Ask(c, estimate)
           \/ Bypass(c) \/ Secure(c) \/ WaitAgain(c)
           \/ \E actual \in Actuals : Record(c, actual)
           \/ CallFails(c)
    \/ Tick

\* Time passes and a caller that wakes up runs; the API need not answer.
Fairness ==
    /\ WF_vars(Tick)
    /\ \A c \in Callers : WF_vars(Bypass(c) \/ Secure(c) \/ WaitAgain(c))

Spec == Init /\ [][Next]_vars /\ Fairness

-----------------------------------------------------------------------------
(***************************************************************************)
(* Properties.                                                             *)
(***************************************************************************)

Entry == [age : 0 .. Window, tokens : Nat, id : Nat]

Grant == [age : 0 .. Window, estimate : Nat, tokens : Nat]

TypeOK ==
    /\ usage \in Seq(Entry)
    /\ pc \in [Callers -> {"idle", "waiting", "calling"}]
    /\ needed \in [Callers -> Nat]
    /\ sleep \in [Callers -> 0 .. Window]
    /\ reservation \in [Callers -> Nat]
    /\ requests \in Nat
    /\ granted \in Seq(Grant)

\* The window holds exactly what was reserved in it, each reservation with its
\* estimate or its own correction, though entries are evicted from the front
\* only, some callers never evict, and corrections come late and in any order.
UsageIsTrue ==
    {[id |-> i, age |-> granted[i].age, tokens |-> granted[i].tokens] :
         i \in {j \in DOMAIN granted : ~Expired(granted[j])}} =
        {e \in ToSet(usage) : ~Expired(e)}

\* What makes it so: entries are in the order of their times and of their
\* identities; each is what was granted, and what is missing has expired; each
\* caller has a reservation of its own, which it has not corrected yet.
InOrder ==
    \A i, j \in DOMAIN usage :
        i < j => usage[i].age >= usage[j].age /\ usage[i].id < usage[j].id

Accounted ==
    /\ requests = Len(granted)
    /\ \A i \in DOMAIN usage :
           /\ usage[i].id \in DOMAIN granted
           /\ usage[i].age = granted[usage[i].id].age
           /\ usage[i].tokens = granted[usage[i].id].tokens
    /\ \A j \in DOMAIN granted :
           Expired(granted[j]) \/ \E i \in DOMAIN usage : usage[i].id = j

OwnReservations ==
    \A c \in Callers :
        /\ reservation[c] <= requests
        /\ pc[c] = "calling" =>
               /\ reservation[c] \in DOMAIN granted
               /\ granted[reservation[c]].tokens
                      = granted[reservation[c]].estimate
               /\ \A d \in Callers \ {c} : reservation[d] # reservation[c]

UsageInv == InOrder /\ Accounted /\ OwnReservations

\* A reservation in the window counts as what it reserved or as what was used
\* if that is less; one that was let through counts nothing.
Counted(g) ==
    IF Expired(g) \/ g.estimate > Limit THEN 0
    ELSE IF g.tokens < g.estimate THEN g.tokens ELSE g.estimate

\* Requests that were made to fit never exceed the limit within any window:
\* "blocks callers whenever the next request would push usage over the
\* configured limit" (utils/rate_limiter.py:19-21), for all interleavings of
\* callers.
WithinLimit == Total([i \in DOMAIN granted |-> Counted(granted[i])]) <= Limit

\* The tokens still in the window in so many ticks.
UsedIn(ticks) ==
    Total([i \in DOMAIN usage |->
              IF usage[i].age + ticks < Window THEN usage[i].tokens ELSE 0])

\* The wait ends with the first tick at which there is headroom, if nothing is
\* reserved or corrected meanwhile: "the time at which enough headroom first
\* becomes available" (utils/rate_limiter.py:56-58).
WaitIsExact ==
    [][\A c \in Callers : WaitAgain(c) =>
           /\ UsedIn(sleep'[c]) + needed[c] <= Limit
           /\ \A t \in 0 .. sleep'[c] - 1 : UsedIn(t) + needed[c] > Limit]_vars

\* Nobody waits forever ("would hang forever", utils/rate_limiter.py:98), as
\* the requests that can overtake a waiting caller are bounded.
EveryoneProceeds ==
    \A c \in Callers : pc[c] = "waiting" ~> pc[c] = "calling"

=============================================================================
