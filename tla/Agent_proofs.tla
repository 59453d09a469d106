---------------------------- MODULE Agent_proofs ----------------------------
(***************************************************************************)
(* Theorems about Agent, for every set of calls, names and files and every *)
(* bound, and before them lemmas about the conversation it keeps.          *)
(***************************************************************************)
EXTENDS Agent, TLAPS, WellFoundedInduction

-----------------------------------------------------------------------------
(***************************************************************************)
(* What pruning and appending do to the pairing of calls and results.      *)
(***************************************************************************)

\* A non-empty set of numbers has a least element.
LEMMA LeastElement ==
    ASSUME NEW S, S \subseteq Nat, S # {}
    PROVE  \E x \in S : \A y \in S : x <= y
<1> DEFINE R == OpToRel(<, Nat)
<1>1. \E x \in S : \A y \in S : ~ (<<y, x>> \in R)
  BY NatLessThanWellFounded, WFMin
<1>2. \A x, y \in Nat : y < x => <<y, x>> \in R
  BY DEF OpToRel
<1> HIDE DEF R
<1>3. PICK x \in S : \A y \in S : ~ (<<y, x>> \in R)
  BY <1>1
<1>4. \A y \in S : ~ (y < x)
  BY <1>2, <1>3, Zenon
<1>5. \A y \in S : x <= y
  BY <1>4
<1>6. QED
  BY <1>5

\* Min picks it.
LEMMA MinInSet ==
    ASSUME NEW S, S \subseteq Nat, S # {}
    PROVE  Min(S) \in S
BY LeastElement DEF Min

\* A non-empty bounded set of numbers has a greatest element, and Max picks it.
LEMMA MaxInSet ==
    ASSUME NEW S, S \subseteq Nat, S # {},
           NEW bound \in Nat, \A x \in S : x <= bound
    PROVE  Max(S) \in S /\ \A x \in S : x <= Max(S)
<1> DEFINE T == {bound - x : x \in S}
<1>1. T \subseteq Nat /\ T # {}
  <2>1. ASSUME NEW x \in S PROVE bound - x \in Nat
    <3>1. x \in Nat /\ x <= bound
      OBVIOUS
    <3>2. QED
      BY <3>1
  <2>2. T \subseteq Nat
    BY <2>1
  <2>3. T # {}
    OBVIOUS
  <2>4. QED
    BY <2>2, <2>3
<1>2. PICK t \in T : \A u \in T : t <= u
  BY <1>1, LeastElement
<1>3. PICK m \in S : t = bound - m
  OBVIOUS
<1>4. ASSUME NEW x \in S
      PROVE  m >= x
  <2>1. bound - x \in T
    OBVIOUS
  <2>2. bound - m <= bound - x
    BY <1>2, <1>3, <2>1
  <2>3. QED
    BY <2>2
<1>5. QED
  BY <1>4 DEF Max

\* Pruning keeps everything, or what follows a clean start.
LEMMA PruneKeepsFromCleanStart ==
    ASSUME NEW msgs \in Seq(Message), NEW max \in Nat
    PROVE  \/ Prune(msgs, max) = msgs
           \/ \E s \in CleanStarts(msgs) :
                  Prune(msgs, max) = SubSeq(msgs, s, Len(msgs))
<1> DEFINE cut     == Len(msgs) - max
           forward == {i \in CleanStarts(msgs) : i > cut}
           back    == {i \in CleanStarts(msgs) : i <= cut}
<1>1. CASE Len(msgs) <= max
  BY <1>1 DEF Prune
<1>2. CASE ~(Len(msgs) <= max)
  <2>1. cut \in Nat
    BY <1>2
  <2>2. forward \subseteq Nat /\ back \subseteq Nat
    BY DEF CleanStarts
  <2>3. CASE forward # {}
    <3>1. Min(forward) \in CleanStarts(msgs)
      BY <2>2, <2>3, MinInSet
    <3>2. PruneStart(msgs, max) = Min(forward)
      BY <2>3 DEF PruneStart
    <3>3. QED
      BY <1>2, <3>1, <3>2 DEF Prune
  <2>4. CASE forward = {} /\ back # {}
    <3>1. Max(back) \in CleanStarts(msgs)
      <4>1. \A i \in back : i <= cut
        OBVIOUS
      <4>2. Max(back) \in back
        BY ONLY <2>1, <2>2, <2>4, <4>1, MaxInSet
      <4>3. QED
        BY <4>2
    <3>2. PruneStart(msgs, max) = Max(back)
      BY <2>4 DEF PruneStart
    <3>3. QED
      BY <1>2, <3>1, <3>2 DEF Prune
  <2>5. CASE forward = {} /\ back = {}
    <3>1. PruneStart(msgs, max) = 1
      BY <2>5 DEF PruneStart
    <3>2. SubSeq(msgs, 1, Len(msgs)) = msgs
      OBVIOUS
    <3>3. QED
      BY <1>2, <3>1, <3>2 DEF Prune
  <2>6. QED
    BY <2>3, <2>4, <2>5
<1>3. QED
  BY <1>1, <1>2

\* Pruning yields messages.
LEMMA PruneType ==
    ASSUME NEW msgs \in Seq(Message), NEW max \in Nat
    PROVE  Prune(msgs, max) \in Seq(Message)
<1>1. ASSUME NEW s \in CleanStarts(msgs)
      PROVE  SubSeq(msgs, s, Len(msgs)) \in Seq(Message)
  BY DEF CleanStarts
<1>2. QED
  BY <1>1, PruneKeepsFromCleanStart

\* Pruning keeps calls and results together.
LEMMA PrunePaired ==
    ASSUME NEW msgs \in Seq(Message), NEW max \in Nat, Paired(msgs)
    PROVE  Paired(Prune(msgs, max))
<1>1. CASE Prune(msgs, max) = msgs
  BY <1>1
<1>2. ASSUME NEW s \in CleanStarts(msgs),
             Prune(msgs, max) = SubSeq(msgs, s, Len(msgs))
      PROVE  Paired(Prune(msgs, max))
  <2> DEFINE kept == SubSeq(msgs, s, Len(msgs))
  <2>1. /\ s \in 1..Len(msgs)
        /\ msgs[s].results = <<>>
    BY DEF CleanStarts, IsCleanStart
  <2>2. /\ kept \in Seq(Message)
        /\ Len(kept) = Len(msgs) - s + 1
        /\ \A i \in 1..Len(kept) : kept[i] = msgs[s + i - 1]
    BY <2>1
  <2>3. ASSUME NEW i \in 1..Len(kept)
        PROVE  CallsAnswered(kept, i) /\ ResultsAsked(kept, i)
    <3> DEFINE k == s + i - 1
    <3>1. k \in 1..Len(msgs) /\ kept[i] = msgs[k]
      BY <2>1, <2>2
    <3>2. CallsAnswered(msgs, k) /\ ResultsAsked(msgs, k)
      BY <3>1 DEF Paired
    <3>3. CallsAnswered(kept, i)
      <4>1. i < Len(kept) => kept[i + 1] = msgs[k + 1]
        BY <2>1, <2>2
      <4>2. k < Len(msgs) => i < Len(kept)
        BY <2>1, <2>2
      <4>3. QED
        BY <3>1, <3>2, <4>1, <4>2 DEF CallsAnswered
    <3>4. ResultsAsked(kept, i)
      <4>1. i > 1 => kept[i - 1] = msgs[k - 1]
        BY <2>1, <2>2
      <4>2. i = 1 => kept[i].results = <<>>
        BY <2>1, <3>1
      <4>3. i \in Nat /\ (i # 1 => i > 1)
        BY <2>2
      <4>4. QED
        BY <3>1, <3>2, <4>1, <4>2, <4>3 DEF ResultsAsked
    <3>5. QED
      BY <3>3, <3>4
  <2>4. QED
    BY <1>2, <2>2, <2>3 DEF Paired
<1>3. QED
  BY <1>1, <1>2, PruneKeepsFromCleanStart

-----------------------------------------------------------------------------
\* Text without calls or results can be added anywhere.
LEMMA PairedAppendText ==
    ASSUME NEW msgs \in Seq(Message), Paired(msgs),
           NEW m \in Message, m.calls = <<>>, m.results = <<>>
    PROVE  Paired(Append(msgs, m))
<1> DEFINE longer == Append(msgs, m)
<1>1. /\ Len(longer) = Len(msgs) + 1
      /\ longer[Len(msgs) + 1] = m
      /\ \A i \in 1..Len(msgs) : longer[i] = msgs[i]
  OBVIOUS
<1>2. ASSUME NEW i \in 1..Len(longer)
      PROVE  CallsAnswered(longer, i) /\ ResultsAsked(longer, i)
  <2>1. CASE i = Len(msgs) + 1
    BY <1>1, <2>1 DEF CallsAnswered, ResultsAsked
  <2>2. CASE i \in 1..Len(msgs)
    <3>1. CallsAnswered(msgs, i) /\ ResultsAsked(msgs, i)
      BY <2>2 DEF Paired
    <3>2. /\ longer[i] = msgs[i]
          /\ i < Len(msgs) => longer[i + 1] = msgs[i + 1]
          /\ i > 1 => longer[i - 1] = msgs[i - 1]
      BY <1>1, <2>2
    <3>3. QED
      BY <1>1, <2>2, <3>1, <3>2 DEF CallsAnswered, ResultsAsked
  <2>3. QED
    BY <1>1, <2>1, <2>2
<1>3. QED
  BY <1>1, <1>2 DEF Paired

\* A message with calls leaves only itself unanswered.
LEMMA PairedAppendCalls ==
    ASSUME NEW msgs \in Seq(Message), Paired(msgs),
           NEW m \in Message, m.results = <<>>
    PROVE  PairedButLast(Append(msgs, m))
<1> DEFINE longer == Append(msgs, m)
<1>1. /\ Len(longer) = Len(msgs) + 1
      /\ longer[Len(msgs) + 1] = m
      /\ \A i \in 1..Len(msgs) : longer[i] = msgs[i]
  OBVIOUS
<1>2. ASSUME NEW i \in 1..Len(longer)
      PROVE  /\ i # Len(longer) => CallsAnswered(longer, i)
             /\ ResultsAsked(longer, i)
  <2>1. CASE i = Len(msgs) + 1
    BY <1>1, <2>1 DEF ResultsAsked
  <2>2. CASE i \in 1..Len(msgs)
    <3>1. CallsAnswered(msgs, i) /\ ResultsAsked(msgs, i)
      BY <2>2 DEF Paired
    <3>2. /\ longer[i] = msgs[i]
          /\ i < Len(msgs) => longer[i + 1] = msgs[i + 1]
          /\ i > 1 => longer[i - 1] = msgs[i - 1]
      BY <1>1, <2>2
    <3>3. QED
      BY <1>1, <2>2, <3>1, <3>2 DEF CallsAnswered, ResultsAsked
  <2>3. QED
    BY <1>1, <2>1, <2>2
<1>3. QED
  BY <1>1, <1>2 DEF PairedButLast

\* The results of the last message's calls close the context again.
LEMMA PairedAppendResults ==
    ASSUME NEW msgs \in Seq(Message), msgs # <<>>, PairedButLast(msgs),
           NEW m \in Message,
           m.calls = <<>>, m.results = msgs[Len(msgs)].calls
    PROVE  Paired(Append(msgs, m))
<1> DEFINE longer == Append(msgs, m)
<1>1. /\ Len(longer) = Len(msgs) + 1
      /\ longer[Len(msgs) + 1] = m
      /\ \A i \in 1..Len(msgs) : longer[i] = msgs[i]
      /\ Len(msgs) \in Nat /\ Len(msgs) > 0
  OBVIOUS
<1>2. ASSUME NEW i \in 1..Len(longer)
      PROVE  CallsAnswered(longer, i) /\ ResultsAsked(longer, i)
  <2>1. CASE i = Len(msgs) + 1
    <3>1. i > 1 /\ longer[i - 1] = msgs[Len(msgs)] /\ longer[i] = m
      BY <1>1, <2>1
    <3>2. QED
      BY <3>1 DEF CallsAnswered, ResultsAsked
  <2>2. CASE i = Len(msgs)
    <3>1. /\ longer[i] = msgs[i] /\ longer[i + 1] = m /\ i < Len(longer)
          /\ i > 1 => longer[i - 1] = msgs[i - 1]
      BY <1>1, <2>2
    <3>2. ResultsAsked(msgs, i)
      BY <1>1, <2>2 DEF PairedButLast
    <3>3. QED
      BY <2>2, <3>1, <3>2 DEF CallsAnswered, ResultsAsked
  <2>3. CASE i \in 1..Len(msgs) /\ i # Len(msgs)
    <3>1. CallsAnswered(msgs, i) /\ ResultsAsked(msgs, i)
      BY <2>3 DEF PairedButLast
    <3>2. /\ longer[i] = msgs[i]
          /\ longer[i + 1] = msgs[i + 1]
          /\ i > 1 => longer[i - 1] = msgs[i - 1]
      BY <1>1, <2>3
    <3>3. QED
      BY <1>1, <2>3, <3>1, <3>2 DEF CallsAnswered, ResultsAsked
  <2>4. QED
    BY <1>1, <2>1, <2>2, <2>3
<1>3. QED
  BY <1>1, <1>2 DEF Paired

-----------------------------------------------------------------------------
(***************************************************************************)
(* The request a turn works on is the last clean start of its context.     *)
(***************************************************************************)

LastStart(msgs, i) ==
    /\ i \in CleanStarts(msgs)
    /\ \A j \in i + 1 .. Len(msgs) : ~IsCleanStart(msgs[j])

\* Pruning begins at a clean start, so never behind the last one.
LEMMA PruneKeepsLastStart ==
    ASSUME NEW msgs \in Seq(Message), NEW max \in Nat,
           NEW r, LastStart(msgs, r)
    PROVE  \E i \in CleanStarts(Prune(msgs, max)) :
               /\ LastStart(Prune(msgs, max), i)
               /\ Prune(msgs, max)[i] = msgs[r]
<1>0. /\ r \in 1..Len(msgs) /\ IsCleanStart(msgs[r])
      /\ r \in CleanStarts(msgs)
      /\ \A j \in r + 1 .. Len(msgs) : ~IsCleanStart(msgs[j])
  BY DEF LastStart, CleanStarts
<1>1. CASE Prune(msgs, max) = msgs
  BY <1>0, <1>1
<1>2. ASSUME NEW s \in CleanStarts(msgs),
             Prune(msgs, max) = SubSeq(msgs, s, Len(msgs))
      PROVE  \E i \in CleanStarts(Prune(msgs, max)) :
                 /\ LastStart(Prune(msgs, max), i)
                 /\ Prune(msgs, max)[i] = msgs[r]
  <2> DEFINE kept == SubSeq(msgs, s, Len(msgs))
             i == r - s + 1
  <2>1. s \in 1..Len(msgs) /\ IsCleanStart(msgs[s])
    BY DEF CleanStarts
  <2>2. s <= r
    BY <1>0, <2>1
  <2>3. /\ kept \in Seq(Message)
        /\ Len(kept) = Len(msgs) - s + 1
        /\ \A k \in 1..Len(kept) : kept[k] = msgs[s + k - 1]
    BY <2>1
  <2>4. i \in 1..Len(kept) /\ kept[i] = msgs[r]
    BY <1>0, <2>1, <2>2, <2>3
  <2>5. ASSUME NEW j \in i + 1 .. Len(kept)
        PROVE  ~IsCleanStart(kept[j])
    <3>1. j \in 1..Len(kept) /\ s + j - 1 \in r + 1 .. Len(msgs)
      BY <1>0, <2>1, <2>2, <2>3
    <3>2. QED
      BY <1>0, <2>3, <3>1
  <2>6. i \in CleanStarts(kept)
    <3>1. IsCleanStart(kept[i]) /\ i \in DOMAIN kept
      BY <1>0, <2>3, <2>4
    <3> HIDE DEF kept, i
    <3>2. QED
      BY <3>1 DEF CleanStarts
  <2>7. LastStart(kept, i)
    BY <2>5, <2>6 DEF LastStart
  <2>8. Prune(msgs, max) = kept
    BY <1>2
  <2> HIDE DEF kept, i
  <2>9. QED
    BY <2>4, <2>6, <2>7, <2>8
<1>3. QED
  BY <1>1, <1>2, PruneKeepsFromCleanStart

\* What exceeds the limit after pruning begins with the last clean start.
LEMMA PruneExceedsWithLastStart ==
    ASSUME NEW msgs \in Seq(Message), NEW max \in Nat,
           NEW r, LastStart(msgs, r)
    PROVE  \/ Len(Prune(msgs, max)) <= max
           \/ Prune(msgs, max)[1] = msgs[r]
<1> DEFINE cut     == Len(msgs) - max
           forward == {i \in CleanStarts(msgs) : i > cut}
           back    == {i \in CleanStarts(msgs) : i <= cut}
<1>0. /\ r \in 1..Len(msgs) /\ r \in CleanStarts(msgs)
      /\ \A i \in CleanStarts(msgs) : i \in 1..Len(msgs) /\ i <= r
  BY DEF LastStart, CleanStarts
<1>1. CASE Len(msgs) <= max
  BY <1>1 DEF Prune
<1>2. CASE ~(Len(msgs) <= max)
  <2>1. cut \in Nat /\ forward \subseteq Nat /\ back \subseteq Nat
    BY <1>2 DEF CleanStarts
  <2>2. CASE forward # {}
    <3>1. Min(forward) \in forward
      BY <2>1, <2>2, MinInSet
    <3>2. Min(forward) \in 1..Len(msgs) /\ Min(forward) > cut
      BY <1>0, <3>1
    <3>3. Prune(msgs, max) = SubSeq(msgs, Min(forward), Len(msgs))
      BY <1>2, <2>2 DEF Prune, PruneStart
    <3>4. QED
      BY <3>2, <3>3
  <2>3. CASE forward = {}
    <3>1. r \in back
      BY <1>0, <2>1, <2>3
    <3>2. \A i \in back : i <= cut
      OBVIOUS
    <3>3. Max(back) \in back /\ r <= Max(back)
      BY ONLY <2>1, <3>1, <3>2, MaxInSet
    <3>4. Max(back) = r
      <4> DEFINE m == Max(back)
      <4>1. m \in CleanStarts(msgs) /\ r <= m
        BY <3>3
      <4> HIDE DEF m
      <4>2. m = r
        BY <1>0, <4>1
      <4>3. QED
        BY <4>2 DEF m
    <3>5. Prune(msgs, max) = SubSeq(msgs, r, Len(msgs))
      BY <1>2, <2>3, <3>1, <3>4 DEF Prune, PruneStart
    <3>6. QED
      BY <1>0, <3>5
  <2>4. QED
    BY <2>2, <2>3
<1>3. QED
  BY <1>1, <1>2

\* A message that opens nothing leaves the last clean start where it is ...
LEMMA AppendKeepsLastStart ==
    ASSUME NEW msgs \in Seq(Message), NEW m \in Message, ~IsCleanStart(m),
           NEW r, LastStart(msgs, r)
    PROVE  LastStart(Append(msgs, m), r) /\ Append(msgs, m)[r] = msgs[r]
<1> DEFINE longer == Append(msgs, m)
<1>1. /\ Len(longer) = Len(msgs) + 1 /\ Len(msgs) \in Nat
      /\ longer[Len(msgs) + 1] = m
      /\ \A i \in 1..Len(msgs) : longer[i] = msgs[i]
  OBVIOUS
<1>2. /\ r \in 1..Len(msgs) /\ IsCleanStart(msgs[r])
      /\ \A j \in r + 1 .. Len(msgs) : ~IsCleanStart(msgs[j])
  BY DEF LastStart, CleanStarts
<1>3. ASSUME NEW j \in r + 1 .. Len(longer)
      PROVE  ~IsCleanStart(longer[j])
  <2>1. j = Len(msgs) + 1 \/ (j \in 1..Len(msgs) /\ j \in r + 1 .. Len(msgs))
    BY <1>1, <1>2
  <2>2. QED
    BY <1>1, <1>2, <2>1
<1>4. r \in CleanStarts(longer)
  BY <1>1, <1>2 DEF CleanStarts
<1>5. QED
  BY <1>1, <1>2, <1>3, <1>4 DEF LastStart

\* ... and a clean start becomes the last one itself.
LEMMA AppendedLastStart ==
    ASSUME NEW msgs \in Seq(Message), NEW m \in Message, IsCleanStart(m)
    PROVE  /\ LastStart(Append(msgs, m), Len(msgs) + 1)
           /\ Append(msgs, m)[Len(msgs) + 1] = m
<1> DEFINE longer == Append(msgs, m)
<1>1. /\ Len(longer) = Len(msgs) + 1 /\ Len(msgs) \in Nat
      /\ longer[Len(msgs) + 1] = m
      /\ Len(msgs) + 1 \in DOMAIN longer
  OBVIOUS
<1>2. QED
  BY <1>1 DEF LastStart, CleanStarts

USE DEF queues, frontend, turn, store, vars

-----------------------------------------------------------------------------
(***************************************************************************)
(* Type correctness.                                                       *)
(***************************************************************************)

LEMMA MessagesAreMessages ==
    /\ \A n \in Nat : UserMessage(n) \in Message
    /\ \A cs \in Seq(Calls) : AssistantMessage(cs) \in Message
    /\ \A cs \in Seq(Calls) : ResultsMessage(cs) \in Message
<1>1. <<>> \in Seq(Calls)
  OBVIOUS
<1>2. QED
  BY <1>1 DEF Message, UserMessage, AssistantMessage, ResultsMessage

LEMMA InitTypeOK == Init => TypeOK
<1> SUFFICES ASSUME Init PROVE TypeOK
  OBVIOUS
<1>1. files \in [Paths -> FileContent] /\ newest \in Paths \cup {None}
  <2>1. InitialFiles \subseteq FileContent /\ DefaultPaths \subseteq Paths
    BY AgentAssumption
  <2>2. files \in [Paths -> InitialFiles]
    BY DEF Init
  <2>3. newest \in {p \in DefaultPaths : files[p].kind # "absent"} \cup {None}
    BY DEF Init
  <2>4. QED
    BY <2>1, <2>2, <2>3
<1>2. /\ savePoints \in [Names -> [set : BOOLEAN, msgs : Seq(Message)]]
      /\ replied \in [1..MaxMessages -> Nat]
      /\ sent \in 0..MaxMessages /\ current \in 0..MaxMessages
  BY AgentAssumption DEF Init
<1>3. shutdown \in BOOLEAN /\ verbose \in BOOLEAN
  BY AgentAssumption, Zenon DEF Init
<1>4. /\ inbox \in Seq(Posted) /\ outbox \in Seq(Published)
      /\ approvalReqs \in Seq(Nat)
      /\ approvalResps \in Seq([ask : Nat, approved : BOOLEAN])
      /\ results \in Seq(Calls) /\ conversation \in Seq(Message)
  BY DEF Init
<1>5. QED
  BY <1>1, <1>2, <1>3, <1>4 DEF Init, TypeOK

LEMMA FrontendTypeOK == TypeOK /\ FrontendStep => TypeOK'
<1> SUFFICES ASSUME TypeOK, FrontendStep PROVE TypeOK'
  OBVIOUS
<1> USE AgentAssumption DEF TypeOK
<1>1. ASSUME NEW input \in Inputs, Send(input) PROVE TypeOK'
  <2>1. [id |-> sent + 1, input |-> input] \in Posted
    BY <1>1 DEF Send, Posted
  <2>2. inbox' \in Seq(Posted) /\ sent' \in 0..MaxMessages
    BY <1>1, <2>1 DEF Send
  <2>3. QED
    BY <1>1, <2>2 DEF Send
<1>2. CASE TakeReply
  BY <1>2 DEF TakeReply
<1>3. CASE ShowRequest
  BY <1>3 DEF ShowRequest
<1>4. ASSUME NEW approved \in BOOLEAN, Answer(approved) PROVE TypeOK'
  BY <1>4 DEF Answer
<1>5. ASSUME NEW b \in VerboseModes, SetVerbose(b) PROVE TypeOK'
  BY <1>5 DEF SetVerbose
<1>6. CASE Shutdown
  BY <1>6 DEF Shutdown
<1>7. QED
  BY <1>1, <1>2, <1>3, <1>4, <1>5, <1>6 DEF FrontendStep

LEMMA HeadAndTail ==
    ASSUME NEW S, NEW q \in Seq(S), q # <<>>
    PROVE  Head(q) \in S /\ Tail(q) \in Seq(S)
OBVIOUS

LEMMA SameSequence ==
    ASSUME NEW S, NEW s \in Seq(S), NEW t \in Seq(S), Len(s) = Len(t),
           \A i \in 1..Len(s) : s[i] = t[i]
    PROVE  s = t
OBVIOUS

\* The message an idle agent takes.
LEMMA ReceivedType ==
    ASSUME TypeOK, NEW command, Received(command)
    PROVE  /\ inbox' \in Seq(Posted)
           /\ Head(inbox).id \in 1..MaxMessages
           /\ Argument \in Paths \cup Names \cup {None}
           /\ command \in {"save", "load"} => Argument \in Paths \cup {None}
           /\ command \in {"savepoint", "restore"} => Argument \in Names
<1>1. Head(inbox) \in Posted /\ Tail(inbox) \in Seq(Posted)
  BY HeadAndTail DEF TypeOK, Received
<1>2. Head(inbox).input \in Inputs /\ Head(inbox).id \in 1..MaxMessages
  BY <1>1 DEF Posted
<1>3. Head(inbox).input.command = command /\ inbox' = Tail(inbox)
  BY DEF Received
<1> DEFINE input == Head(inbox).input
<1>4. /\ input.arg \in Paths \cup Names \cup {None}
      /\ input.command \in {"save", "load"} => input.arg \in Paths \cup {None}
      /\ input.command \in {"savepoint", "restore"} => input.arg \in Names
  <2> HIDE DEF input
  <2>1. input \in Inputs
    BY <1>2 DEF input
  <2>2. QED
    BY <2>1 DEF Inputs
<1>5. QED
  BY <1>1, <1>2, <1>3, <1>4 DEF Argument

LEMMA CountUp ==
    ASSUME NEW S, NEW f \in [S -> Nat], NEW x \in S
    PROVE  [f EXCEPT ![x] = @ + 1] \in [S -> Nat]
OBVIOUS

LEMMA FinalReplyType ==
    ASSUME TypeOK, NEW id \in 1..MaxMessages, FinalReply(id)
    PROVE  outbox' \in Seq(Published) /\ replied' \in [1..MaxMessages -> Nat]
<1>1. [to |-> id, kind |-> "final"] \in Published
  BY DEF Published
<1>2. outbox' \in Seq(Published)
  BY <1>1 DEF TypeOK, FinalReply
<1>3. replied' \in [1..MaxMessages -> Nat]
  <2>1. replied \in [1..MaxMessages -> Nat]
    BY DEF TypeOK
  <2>2. replied' = [replied EXCEPT ![id] = @ + 1]
    BY DEF FinalReply
  <2>3. QED
    BY ONLY <2>1, <2>2, id \in 1..MaxMessages, CountUp
<1>4. QED
  BY <1>2, <1>3

\* What a control command leaves in order, whatever it does to the stores.
LEMMA ControlType ==
    ASSUME TypeOK, NEW command, Control(command)
    PROVE  /\ inbox' \in Seq(Posted)
           /\ outbox' \in Seq(Published)
           /\ current' \in 0..MaxMessages
           /\ pc' = "idle"
           /\ replied' \in [1..MaxMessages -> Nat]
           /\ UNCHANGED <<approvalReqs, approvalResps, frontend,
                          results, rounds, asks, grant>>
           /\ command \in {"save", "load"} => Argument \in Paths \cup {None}
           /\ command \in {"savepoint", "restore"} => Argument \in Names
<1>1. Received(command) /\ FinalReply(Head(inbox).id)
  BY DEF Control
<1>2. Head(inbox).id \in 1..MaxMessages
  BY <1>1, ReceivedType
<1>3. outbox' \in Seq(Published) /\ replied' \in [1..MaxMessages -> Nat]
  BY <1>1, <1>2, FinalReplyType
<1>4. current' \in 0..MaxMessages
  BY <1>1, <1>2, AgentAssumption DEF Received
<1>5. QED
  BY <1>1, <1>3, <1>4, ReceivedType DEF Control, Received

LEMMA WrittenType ==
    ASSUME TypeOK, NEW path \in Paths, NEW content \in FileContent,
           Written(path, content)
    PROVE  /\ files' \in [Paths -> FileContent]
           /\ newest' \in Paths \cup {None}
           /\ UNCHANGED <<conversation, savePoints>>
BY DEF TypeOK, Written

LEMMA ControlTypeOK == TypeOK /\ ControlStep => TypeOK'
<1> SUFFICES ASSUME TypeOK, ControlStep PROVE TypeOK'
  OBVIOUS
<1> DEFINE Rest4 == /\ conversation' \in Seq(Message)
                    /\ savePoints' \in [Names -> [set : BOOLEAN, msgs : Seq(Message)]]
                    /\ files' \in [Paths -> FileContent]
                    /\ newest' \in Paths \cup {None}
<1>0. ASSUME NEW command, Control(command), Rest4
      PROVE  TypeOK'
  <2>1. /\ inbox' \in Seq(Posted) /\ outbox' \in Seq(Published)
        /\ current' \in 0..MaxMessages /\ pc' = "idle"
        /\ replied' \in [1..MaxMessages -> Nat]
        /\ UNCHANGED <<approvalReqs, approvalResps, frontend,
                       results, rounds, asks, grant>>
    BY <1>0, ControlType
  <2>2. QED
    BY <1>0, <2>1 DEF TypeOK
<1>1. CASE Reset
  <2>1. Control("reset") /\ Rest4
    BY <1>1 DEF Reset, TypeOK
  <2>2. QED
    BY <1>0, <2>1
<1>2. CASE Notice
  <2>1. Control("notice") /\ Rest4
    BY <1>2 DEF Notice, TypeOK
  <2>2. QED
    BY <1>0, <2>1
<1>3. CASE Save \/ SaveFails
  <2>1. Control("save")
    BY <1>3 DEF Save, SaveFails
  <2>2. SaveTargets \subseteq Paths
    BY <2>1, ControlType, AgentAssumption DEF SaveTargets
  <2>3. /\ [kind |-> "saved", msgs |-> conversation] \in FileContent
        /\ [kind |-> "malformed", msgs |-> <<>>] \in FileContent
    BY DEF TypeOK, FileContent
  <2>4. Rest4
    <3>1. CASE UNCHANGED <<conversation, store>>
      BY <3>1 DEF TypeOK
    <3>2. ASSUME NEW path \in SaveTargets, NEW content \in FileContent,
                 Written(path, content)
          PROVE  Rest4
      BY <2>2, <3>2, WrittenType DEF TypeOK
    <3>3. QED
      BY <1>3, <2>3, <3>1, <3>2 DEF Save, SaveFails
  <2>5. QED
    BY <1>0, <2>1, <2>4
<1>4. CASE CommandDies
  <2>1. PICK command \in {"save", "load"} : Received(command)
    BY <1>4 DEF CommandDies
  <2>2. QED
    BY <1>4, <2>1, ReceivedType DEF CommandDies, Received, TypeOK
<1>5. CASE Load
  <2>1. Control("load")
    BY <1>5 DEF Load
  <2>2. LoadSource \in Paths \cup {None}
    BY <2>1, ControlType DEF LoadSource, TypeOK
  <2>3. ASSUME LoadSource \in Paths
        PROVE  RestoreFromFlat(files[LoadSource]) \in Seq(Message)
    BY <2>3 DEF RestoreFromFlat, TypeOK, FileContent
  <2>4. Rest4
    BY <1>5, <2>2, <2>3 DEF Load, TypeOK
  <2>5. QED
    BY <1>0, <2>1, <2>4
<1>6. CASE SavePoint
  <2>1. Control("savepoint")
    BY <1>6 DEF SavePoint
  <2>2. Argument \in Names
    BY <2>1, ControlType
  <2>3. Rest4
    BY <1>6, <2>2 DEF SavePoint, TypeOK
  <2>4. QED
    BY <1>0, <2>1, <2>3
<1>7. CASE Restore
  <2>1. Control("restore")
    BY <1>7 DEF Restore
  <2>2. Argument \in Names
    BY <2>1, ControlType
  <2>3. Rest4
    BY <1>7, <2>2 DEF Restore, TypeOK
  <2>4. QED
    BY <1>0, <2>1, <2>3
<1>8. QED
  BY <1>1, <1>2, <1>3, <1>4, <1>5, <1>6, <1>7 DEF ControlStep

\* The call being run is one of the model's.
LEMMA NextCallType ==
    ASSUME TypeOK, ContextInv, pc \in RunningCalls,
           Len(results) < Len(AskedFor)
    PROVE  /\ NextCall \in Calls
           /\ Append(results, NextCall) \in Seq(Calls)
<1>1. conversation[Len(conversation)] \in Message
  BY DEF TypeOK, ContextInv
<1>2. AskedFor \in Seq(Calls)
  BY <1>1 DEF AskedFor, Message
<1>3. results \in Seq(Calls)
  BY DEF TypeOK
<1>4. NextCall \in Calls
  BY <1>2, <1>3 DEF NextCall
<1>5. QED
  BY <1>3, <1>4

LEMMA CallDoneType ==
    ASSUME TypeOK, ContextInv, pc \in RunningCalls,
           Len(results) < Len(AskedFor), CallDone
    PROVE  /\ results' \in Seq(Calls) /\ grant' = 0 /\ pc' = "tool"
           /\ UNCHANGED <<inbox, approvalReqs, frontend, current, rounds, asks,
                          conversation, store>>
BY NextCallType DEF CallDone

LEMMA RejectCallType ==
    ASSUME TypeOK, ContextInv, pc \in RunningCalls,
           Len(results) < Len(AskedFor), current # 0, RejectCall,
           approvalResps' \in Seq([ask : Nat, approved : BOOLEAN])
    PROVE  TypeOK'
<1>1. current \in 1..MaxMessages
  BY AgentAssumption DEF TypeOK
<1>2. [to |-> current, kind |-> "rejected"] \in Published
  BY <1>1 DEF Published
<1>3. outbox' \in Seq(Published) /\ UNCHANGED replied
  BY <1>2 DEF TypeOK, RejectCall, RejectedNotice
<1>4. CallDone
  BY DEF RejectCall
<1>5. /\ results' \in Seq(Calls) /\ grant' = 0 /\ pc' = "tool"
      /\ UNCHANGED <<inbox, approvalReqs, frontend, current, rounds, asks,
                     conversation, store>>
  BY <1>4, CallDoneType
<1>6. QED
  BY <1>3, <1>5 DEF TypeOK, InTurn

LEMMA EndTurnType ==
    ASSUME TypeOK, current # 0, EndTurn, conversation' \in Seq(Message)
    PROVE  TypeOK'
<1>1. current \in 1..MaxMessages
  BY AgentAssumption DEF TypeOK
<1>2. outbox' \in Seq(Published) /\ replied' \in [1..MaxMessages -> Nat]
  BY <1>1, FinalReplyType DEF EndTurn
<1>3. /\ pc' = "idle"
      /\ UNCHANGED <<inbox, approvalReqs, approvalResps, frontend, turn, store>>
  BY DEF EndTurn
<1>4. QED
  BY <1>2, <1>3 DEF TypeOK

LEMMA TurnTypeOK ==
    TypeOK /\ ContextInv /\ (pc \in InTurn => current # 0) /\ TurnStep
        => TypeOK'
<1> SUFFICES ASSUME TypeOK, ContextInv, pc \in InTurn => current # 0, TurnStep
             PROVE  TypeOK'
  OBVIOUS
<1>1. \A max \in MaxLengths : Prune(conversation, max) \in Seq(Message)
  BY PruneType, AgentAssumption DEF TypeOK
<1>2. CASE BeginStep
  <2>1. conversation' \in Seq(Message)
    BY <1>1, <1>2 DEF BeginStep
  <2>2. QED
    BY <1>2, <2>1 DEF BeginStep, TypeOK, InTurn
<1>3. CASE BeginStepFails
  <2>1. conversation' \in Seq(Message)
    BY <1>1, <1>3 DEF BeginStepFails
  <2>2. QED
    BY <1>3, <2>1, EndTurnType DEF BeginStepFails, InTurn
<1>4. CASE ReplyText
  <2>1. conversation' \in Seq(Message)
    <3>1. AssistantMessage(<<>>) \in Message
      <4>1. <<>> \in Seq(Calls)
        OBVIOUS
      <4>2. QED
        BY <4>1, MessagesAreMessages
    <3>2. QED
      BY <1>4, <3>1 DEF ReplyText, TypeOK
  <2>2. QED
    BY <1>4, <2>1, EndTurnType DEF ReplyText, InTurn
<1>5. CASE EndWithoutMessage
  <2>1. conversation' \in Seq(Message)
    BY <1>5 DEF EndWithoutMessage, TypeOK
  <2>2. QED
    BY <1>5, <2>1, EndTurnType DEF EndWithoutMessage, InTurn
<1>6. CASE ReplyCalls
  <2>1. conversation' \in Seq(Message)
    <3>1. \A cs \in CallSeqs : AssistantMessage(cs) \in Message
      BY MessagesAreMessages, AgentAssumption
    <3>2. QED
      BY <1>6, <3>1 DEF ReplyCalls, TypeOK
  <2>2. /\ results' = <<>> /\ rounds' = rounds + 1 /\ pc' = "tool"
        /\ UNCHANGED <<queues, frontend, current, asks, grant, store, replied>>
    BY <1>6 DEF ReplyCalls
  <2>3. QED
    BY <2>1, <2>2 DEF TypeOK, InTurn
<1>7. CASE BadCall
  <2>1. pc \in RunningCalls /\ Len(results) < Len(AskedFor)
    BY <1>7 DEF BadCall, CallPending, RunningCalls
  <2>2. /\ results' \in Seq(Calls) /\ grant' = 0 /\ pc' = "tool"
        /\ UNCHANGED <<inbox, approvalReqs, frontend, current, rounds, asks,
                       conversation, store, outbox, approvalResps, replied>>
    BY <1>7, <2>1, CallDoneType DEF BadCall
  <2>3. QED
    BY <2>2 DEF TypeOK, InTurn
<1>8. CASE StartTool
  BY <1>8 DEF StartTool, TypeOK, InTurn
<1>9. CASE AskApproval
  BY <1>9 DEF AskApproval, TypeOK, InTurn
<1>10. CASE CheckBeforeApproval
  <2>1. pc \in RunningCalls /\ Len(results) < Len(AskedFor) /\ current # 0
    BY <1>10 DEF CheckBeforeApproval, ContextInv, RunningCalls, InTurn
  <2>2. CASE RejectCall /\ UNCHANGED approvalResps
    <3>1. approvalResps' \in Seq([ask : Nat, approved : BOOLEAN])
      BY <2>2 DEF TypeOK
    <3>2. QED
      BY <2>1, <2>2, <3>1, RejectCallType
  <2>3. CASE /\ pc' = "approval"
             /\ UNCHANGED <<queues, frontend, turn, conversation, store, replied>>
    BY <2>3 DEF TypeOK, InTurn
  <2>4. QED
    BY <1>10, <2>2, <2>3 DEF CheckBeforeApproval
<1>11. CASE TakeApproval
  <2>1. pc \in RunningCalls /\ Len(results) < Len(AskedFor) /\ current # 0
    BY <1>11 DEF TakeApproval, ContextInv, RunningCalls, InTurn
  <2>2. /\ Head(approvalResps) \in [ask : Nat, approved : BOOLEAN]
        /\ approvalResps' \in Seq([ask : Nat, approved : BOOLEAN])
    BY <1>11, HeadAndTail DEF TakeApproval, TypeOK
  <2>3. CASE RejectCall
    BY <2>1, <2>2, <2>3, RejectCallType
  <2>4. CASE /\ grant' = Head(approvalResps).ask
             /\ pc' = "run"
             /\ UNCHANGED <<inbox, outbox, approvalReqs, frontend, current,
                            results, rounds, asks, conversation, store, replied>>
    <3>1. grant' \in Nat
      BY <2>2, <2>4
    <3>2. QED
      BY <2>2, <2>4, <3>1 DEF TypeOK, InTurn
  <2>5. QED
    BY <1>11, <2>3, <2>4 DEF TakeApproval
<1>12. CASE ApprovalTimeout
  <2>1. pc \in RunningCalls /\ Len(results) < Len(AskedFor) /\ current # 0
    BY <1>12 DEF ApprovalTimeout, ContextInv, RunningCalls, InTurn
  <2>2. approvalResps' \in Seq([ask : Nat, approved : BOOLEAN])
    BY <1>12 DEF ApprovalTimeout, TypeOK
  <2>3. QED
    BY <1>12, <2>1, <2>2, RejectCallType DEF ApprovalTimeout
<1>13. CASE RunTool
  <2>1. pc \in RunningCalls /\ Len(results) < Len(AskedFor)
    BY <1>13 DEF RunTool, ContextInv, RunningCalls
  <2>2. /\ results' \in Seq(Calls) /\ grant' = 0 /\ pc' = "tool"
        /\ UNCHANGED <<inbox, approvalReqs, frontend, current, rounds, asks,
                       conversation, store, outbox, approvalResps, replied>>
    BY <1>13, <2>1, CallDoneType DEF RunTool
  <2>3. QED
    BY <2>2 DEF TypeOK, InTurn
<1>14. CASE FinishCalls
  <2>1. conversation' \in Seq(Message)
    <3>1. ResultsMessage(results) \in Message
      BY MessagesAreMessages DEF TypeOK
    <3>2. QED
      BY <1>14, <3>1 DEF FinishCalls, TypeOK
  <2>2. /\ results' = <<>> /\ pc' = "step"
        /\ UNCHANGED <<queues, frontend, current, rounds, asks, grant, store,
                       replied>>
    BY <1>14 DEF FinishCalls
  <2>3. QED
    BY <2>1, <2>2 DEF TypeOK, InTurn
<1>15. QED
  BY <1>2, <1>3, <1>4, <1>5, <1>6, <1>7, <1>8, <1>9, <1>10, <1>11, <1>12,
     <1>13, <1>14 DEF TurnStep

-----------------------------------------------------------------------------
(***************************************************************************)
(* The pairing of calls and results.                                       *)
(***************************************************************************)

LEMMA InitContextInv == Init => ContextInv
<1> SUFFICES ASSUME Init PROVE ContextInv
  OBVIOUS
<1>1. Paired(<<>>)
  BY DEF Paired
<1>2. \A n \in Names : Paired(savePoints[n].msgs)
  BY <1>1 DEF Init
<1>3. \A p \in Paths : Paired(files[p].msgs)
  <2>1. \A p \in Paths : files[p] \in InitialFiles
    BY DEF Init
  <2>2. \A f \in InitialFiles : Paired(f.msgs)
    BY AgentAssumption
  <2>3. QED
    BY <2>1, <2>2
<1>4. QED
  BY <1>1, <1>2, <1>3 DEF Init, ContextInv, StoredPaired, RunningCalls

LEMMA FrontendContextInv == ContextInv /\ FrontendStep => ContextInv'
<1> SUFFICES ASSUME ContextInv, FrontendStep PROVE ContextInv'
  OBVIOUS
<1>1. UNCHANGED <<pc, results, conversation, savePoints, files>>
  BY DEF FrontendStep, Send, TakeReply, ShowRequest, Answer, SetVerbose, Shutdown
<1>2. QED
  BY <1>1 DEF ContextInv, StoredPaired, AskedFor

LEMMA ControlContextInv ==
    TypeOK /\ ContextInv /\ ControlStep => ContextInv'
<1> SUFFICES ASSUME TypeOK, ContextInv, ControlStep PROVE ContextInv'
  OBVIOUS
<1>1. pc = "waiting" /\ Paired(conversation)
  BY DEF ControlStep, Reset, Notice, Save, SaveFails, CommandDies, Load,
         SavePoint, Restore, Control, Received, ContextInv, RunningCalls
<1>2. pc' \in {"idle", "dead"}
  BY DEF ControlStep, Reset, Notice, Save, SaveFails, CommandDies, Load,
         SavePoint, Restore, Control
<1>3. Paired(<<>>)
  BY DEF Paired
<1>4. /\ \A n \in Names : Paired(savePoints[n].msgs)
      /\ \A p \in Paths : Paired(files[p].msgs)
  BY DEF ContextInv, StoredPaired
<1>5. SUFFICES /\ Paired(conversation')
               /\ \A n \in Names : Paired(savePoints'[n].msgs)
               /\ \A p \in Paths : Paired(files'[p].msgs)
  BY <1>2 DEF ContextInv, StoredPaired, RunningCalls
<1>6. CASE Reset
  BY <1>3, <1>4, <1>6 DEF Reset
<1>7. CASE Notice \/ CommandDies
  BY <1>1, <1>4, <1>7 DEF Notice, CommandDies
<1>8. CASE Save \/ SaveFails
  <2>1. CASE UNCHANGED <<conversation, store>>
    BY <1>1, <1>4, <2>1
  <2>2. ASSUME NEW path, NEW content, Paired(content.msgs),
               Written(path, content)
        PROVE  /\ Paired(conversation')
               /\ \A n \in Names : Paired(savePoints'[n].msgs)
               /\ \A p \in Paths : Paired(files'[p].msgs)
    BY <1>1, <1>4, <2>2 DEF Written, TypeOK
  <2>3. QED
    BY <1>1, <1>3, <1>8, <2>1, <2>2 DEF Save, SaveFails
<1>9. CASE Load
  <2>1. Control("load")
    BY <1>9 DEF Load
  <2>2. LoadSource \in Paths \cup {None}
    BY <2>1, ControlType DEF LoadSource, TypeOK
  <2>3. ASSUME LoadSource \in Paths
        PROVE  Paired(RestoreFromFlat(files[LoadSource]))
    BY <1>3, <1>4, <2>3 DEF RestoreFromFlat
  <2>4. QED
    BY <1>1, <1>4, <1>9, <2>2, <2>3 DEF Load
<1>10. CASE SavePoint
  BY <1>1, <1>4, <1>10 DEF SavePoint, TypeOK
<1>11. CASE Restore
  <2>1. Argument \in Names
    BY <1>11, ControlType DEF Restore
  <2>2. QED
    BY <1>1, <1>4, <1>11, <2>1 DEF Restore
<1>12. QED
  BY <1>6, <1>7, <1>8, <1>9, <1>10, <1>11 DEF ControlStep

\* One more call of the last message has its result.
LEMMA CallDoneContextInv ==
    ASSUME TypeOK, ContextInv, pc \in RunningCalls,
           Len(results) < Len(AskedFor), CallDone
    PROVE  ContextInv'
<1>1. /\ results' = Append(results, NextCall)
      /\ pc' = "tool"
      /\ UNCHANGED <<conversation, savePoints, files>>
  BY DEF CallDone
<1>2. /\ results \in Seq(Calls)
      /\ AskedFor \in Seq(Calls)
  <2>1. conversation[Len(conversation)] \in Message
    BY DEF TypeOK, ContextInv
  <2>2. QED
    BY <2>1 DEF TypeOK, AskedFor, Message
<1>3. /\ conversation # <<>>
      /\ PairedButLast(conversation)
      /\ \A i \in 1..Len(results) : results[i] = AskedFor[i]
  BY DEF ContextInv
<1>4. /\ Len(results') = Len(results) + 1
      /\ results'[Len(results) + 1] = NextCall
      /\ \A i \in 1..Len(results) : results'[i] = results[i]
  BY <1>1, <1>2
<1>5. AskedFor' = AskedFor
  BY <1>1 DEF AskedFor
<1>6. /\ Len(results') <= Len(AskedFor)
      /\ \A i \in 1..Len(results') : results'[i] = AskedFor[i]
  BY <1>2, <1>3, <1>4 DEF NextCall
<1>7. StoredPaired'
  BY <1>1 DEF ContextInv, StoredPaired
<1>8. QED
  BY <1>1, <1>3, <1>5, <1>6, <1>7 DEF ContextInv, RunningCalls

\* A turn that leaves the running of calls behind, its context paired.
LEMMA TurnContextInv ==
    TypeOK /\ ContextInv /\ TurnStep => ContextInv'
<1> SUFFICES ASSUME TypeOK, ContextInv, TurnStep PROVE ContextInv'
  OBVIOUS
<1> DEFINE StoreKept == UNCHANGED <<savePoints, files>>
<1>1. ASSUME StoreKept, Paired(conversation'), pc' \notin RunningCalls
      PROVE  ContextInv'
  BY <1>1 DEF ContextInv, StoredPaired
<1>2. CASE BeginStep \/ BeginStepFails
  <2>1. Paired(conversation)
    BY <1>2 DEF BeginStep, BeginStepFails, ContextInv, RunningCalls
  <2>2. Paired(conversation')
    <3>1. PICK max \in MaxLengths : conversation' = Prune(conversation, max)
      BY <1>2 DEF BeginStep, BeginStepFails
    <3>2. max \in Nat
      BY AgentAssumption
    <3>3. QED
      BY <2>1, <3>1, <3>2, PrunePaired DEF TypeOK
  <2>3. StoreKept /\ pc' \notin RunningCalls
    BY <1>2 DEF BeginStep, BeginStepFails, EndTurn, RunningCalls
  <2>4. QED
    BY <1>1, <2>2, <2>3
<1>3. CASE ReplyText
  <2>1. Paired(conversation)
    BY <1>3 DEF ReplyText, ContextInv, RunningCalls
  <2>2. Paired(conversation')
    <3>1. AssistantMessage(<<>>) \in Message
      <4>1. <<>> \in Seq(Calls)
        OBVIOUS
      <4>2. QED
        BY <4>1, MessagesAreMessages
    <3>2. /\ AssistantMessage(<<>>).calls = <<>>
          /\ AssistantMessage(<<>>).results = <<>>
      BY DEF AssistantMessage
    <3>3. conversation' = Append(conversation, AssistantMessage(<<>>))
      BY <1>3 DEF ReplyText
    <3>4. conversation \in Seq(Message)
      BY DEF TypeOK
    <3>5. QED
      BY <2>1, <3>1, <3>2, <3>3, <3>4, PairedAppendText
  <2>3. StoreKept /\ pc' \notin RunningCalls
    BY <1>3 DEF ReplyText, EndTurn, RunningCalls
  <2>4. QED
    BY <1>1, <2>2, <2>3
<1>4. CASE EndWithoutMessage
  <2>1. Paired(conversation') /\ StoreKept /\ pc' \notin RunningCalls
    BY <1>4 DEF EndWithoutMessage, EndTurn, ContextInv, RunningCalls
  <2>2. QED
    BY <1>1, <2>1
<1>5. CASE ReplyCalls
  <2>1. PICK cs \in CallSeqs :
            conversation' = Append(conversation, AssistantMessage(cs))
    BY <1>5 DEF ReplyCalls
  <2>2. /\ Paired(conversation) /\ results' = <<>> /\ pc' = "tool"
        /\ StoreKept
    BY <1>5 DEF ReplyCalls, ContextInv, RunningCalls
  <2>3. /\ AssistantMessage(cs) \in Message /\ cs \in Seq(Calls)
        /\ AssistantMessage(cs).results = <<>>
        /\ AssistantMessage(cs).calls = cs
    BY MessagesAreMessages, AgentAssumption DEF AssistantMessage
  <2>4. conversation \in Seq(Message)
    BY DEF TypeOK
  <2>5. PairedButLast(conversation')
    BY <2>1, <2>2, <2>3, <2>4, PairedAppendCalls
  <2>6. /\ conversation' # <<>>
        /\ conversation'[Len(conversation')] = AssistantMessage(cs)
    BY <2>1, <2>3, <2>4
  <2>7. AskedFor' = cs
    BY <2>3, <2>6 DEF AskedFor
  <2>8. StoredPaired'
    BY <2>2 DEF ContextInv, StoredPaired
  <2>9. Len(results') = 0 /\ Len(cs) \in Nat
    BY <2>2, <2>3
  <2>10. QED
    BY <2>2, <2>5, <2>6, <2>7, <2>8, <2>9 DEF ContextInv, RunningCalls
<1>6. ASSUME StoreKept, UNCHANGED <<conversation, results>>,
             pc \in RunningCalls, pc' \in RunningCalls,
             Len(results) < Len(AskedFor)
      PROVE  ContextInv'
  BY <1>6 DEF ContextInv, StoredPaired, AskedFor, RunningCalls
<1>7. CASE BadCall \/ ApprovalTimeout \/ RunTool
  <2>1. /\ pc \in RunningCalls /\ Len(results) < Len(AskedFor) /\ CallDone
    BY <1>7 DEF BadCall, CallPending, ApprovalTimeout, RunTool, RejectCall,
                ContextInv, RunningCalls
  <2>2. QED
    BY <2>1, CallDoneContextInv
<1>8. CASE StartTool \/ AskApproval
  BY <1>6, <1>8 DEF StartTool, AskApproval, CallPending, RunningCalls
<1>9. CASE CheckBeforeApproval \/ TakeApproval
  <2>1. pc \in RunningCalls /\ Len(results) < Len(AskedFor)
    BY <1>9 DEF CheckBeforeApproval, TakeApproval, ContextInv, RunningCalls
  <2>2. CASE RejectCall
    BY <2>1, <2>2, CallDoneContextInv DEF RejectCall
  <2>3. CASE ~RejectCall
    <3>1. /\ StoreKept /\ UNCHANGED <<conversation, results>>
          /\ pc' \in {"approval", "run"}
      BY <1>9, <2>3 DEF CheckBeforeApproval, TakeApproval
    <3>2. pc' \in RunningCalls
      BY <3>1 DEF RunningCalls
    <3>3. QED
      BY <1>6, <2>1, <3>1, <3>2
  <2>4. QED
    BY <2>2, <2>3
<1>10. CASE FinishCalls
  <2>1. /\ pc = "tool" /\ Len(results) = Len(AskedFor)
        /\ conversation' = Append(conversation, ResultsMessage(results))
        /\ pc' = "step" /\ StoreKept
    BY <1>10 DEF FinishCalls
  <2>2. /\ conversation # <<>> /\ PairedButLast(conversation)
        /\ \A i \in 1..Len(results) : results[i] = AskedFor[i]
    BY <2>1 DEF ContextInv, RunningCalls
  <2>3. /\ conversation \in Seq(Message) /\ results \in Seq(Calls)
        /\ AskedFor \in Seq(Calls)
    <3>1. conversation[Len(conversation)] \in Message
      BY <2>2 DEF TypeOK
    <3>2. QED
      BY <3>1 DEF TypeOK, AskedFor, Message
  <2>4. results = AskedFor
    BY ONLY <2>1, <2>2, <2>3, SameSequence
  <2>5. /\ ResultsMessage(results) \in Message
        /\ ResultsMessage(results).calls = <<>>
        /\ ResultsMessage(results).results = conversation[Len(conversation)].calls
    BY <2>3, <2>4, MessagesAreMessages DEF ResultsMessage, AskedFor
  <2>6. Paired(conversation')
    BY <2>1, <2>2, <2>3, <2>5, PairedAppendResults
  <2>7. QED
    BY <1>1, <2>1, <2>6 DEF RunningCalls
<1>11. QED
  BY <1>2, <1>3, <1>4, <1>5, <1>7, <1>8, <1>9, <1>10 DEF TurnStep

-----------------------------------------------------------------------------
(***************************************************************************)
(* One final reply per message.                                            *)
(***************************************************************************)

LEMMA InitAnswerInv == Init => AnswerInv
BY AgentAssumption DEF Init, AnswerInv, AnsweredOnce, Handling, InTurn

LEMMA FrontendAnswerInv == TypeOK /\ AnswerInv /\ FrontendStep => AnswerInv'
<1> SUFFICES ASSUME TypeOK, AnswerInv, FrontendStep PROVE AnswerInv'
  OBVIOUS
<1>1. ASSUME NEW input \in Inputs, Send(input) PROVE AnswerInv'
  <2>1. /\ inbox' = Append(inbox, [id |-> sent + 1, input |-> input])
        /\ sent' = sent + 1
        /\ UNCHANGED <<pc, current, replied>>
    BY <1>1 DEF Send
  <2>2. inbox \in Seq(Posted) /\ current \in Nat /\ sent \in Nat
    BY AgentAssumption DEF TypeOK
  <2>3. /\ Len(inbox') = Len(inbox) + 1
        /\ inbox'[Len(inbox) + 1].id = sent + 1
        /\ \A i \in 1..Len(inbox) : inbox'[i] = inbox[i]
    BY <2>1, <2>2
  <2>4. \A i \in 1..Len(inbox') : inbox'[i].id = current' + i
    <3>1. ASSUME NEW i \in 1..Len(inbox')
          PROVE  inbox'[i].id = current' + i
      <4>1. CASE i = Len(inbox) + 1
        BY <2>1, <2>2, <2>3, <4>1 DEF AnswerInv
      <4>2. CASE i \in 1..Len(inbox)
        BY <2>1, <2>3, <4>2 DEF AnswerInv
      <4>3. QED
        BY <2>2, <2>3, <4>1, <4>2
    <3>2. QED
      BY <3>1
  <2>5. sent' = current' + Len(inbox')
    BY <2>1, <2>2, <2>3 DEF AnswerInv
  <2>6. QED
    BY <2>1, <2>4, <2>5 DEF AnswerInv, AnsweredOnce, Handling
<1>2. CASE UNCHANGED <<inbox, sent, pc, current, replied>>
  BY <1>2 DEF AnswerInv, AnsweredOnce, Handling
<1>3. QED
  BY <1>1, <1>2
  DEF FrontendStep, TakeReply, ShowRequest, Answer, SetVerbose, Shutdown

\* The agent takes the next message.
LEMMA ReceivedNumber ==
    ASSUME TypeOK, AnswerInv, NEW command, Received(command)
    PROVE  /\ Head(inbox).id = current + 1
           /\ current' = current + 1
           /\ current' \in 1..MaxMessages
           /\ sent = current' + Len(inbox')
           /\ \A i \in 1..Len(inbox') : inbox'[i].id = current' + i
<1>1. /\ inbox # <<>> /\ inbox' = Tail(inbox) /\ current' = Head(inbox).id
  BY DEF Received
<1>2. inbox \in Seq(Posted) /\ current \in Nat /\ sent \in Nat
  BY AgentAssumption DEF TypeOK
<1>3. /\ Len(inbox) >= 1 /\ Len(inbox) \in Nat
      /\ Head(inbox) = inbox[1]
      /\ Len(inbox') = Len(inbox) - 1
      /\ \A i \in 1..Len(inbox') : inbox'[i] = inbox[i + 1]
  BY <1>1, <1>2
<1>4. Head(inbox).id = current + 1
  BY <1>3 DEF AnswerInv
<1>5. \A i \in 1..Len(inbox') : inbox'[i].id = current' + i
  <2>1. ASSUME NEW i \in 1..Len(inbox')
        PROVE  inbox'[i].id = current' + i
    <3>1. i + 1 \in 1..Len(inbox)
      BY <1>3
    <3>2. inbox[i + 1].id = current + (i + 1)
      BY <3>1 DEF AnswerInv
    <3>3. QED
      BY <1>1, <1>2, <1>3, <1>4, <3>2
  <2>2. QED
    BY <2>1
<1>6. sent = current' + Len(inbox')
  BY <1>1, <1>2, <1>3, <1>4 DEF AnswerInv
<1>7. QED
  BY <1>1, <1>4, <1>5, <1>6, ReceivedType

LEMMA ControlAnswerInv == TypeOK /\ AnswerInv /\ ControlStep => AnswerInv'
<1> SUFFICES ASSUME TypeOK, AnswerInv, ControlStep PROVE AnswerInv'
  OBVIOUS
<1>0. current \in Nat /\ replied \in [1..MaxMessages -> Nat]
  BY AgentAssumption DEF TypeOK
<1>1. ASSUME NEW command, Control(command) PROVE AnswerInv'
  <2>1. Received(command) /\ FinalReply(Head(inbox).id) /\ pc' = "idle"
        /\ pc = "waiting" /\ UNCHANGED sent
    BY <1>1 DEF Control, Received
  <2>2. /\ current' = current + 1 /\ current' \in 1..MaxMessages
        /\ sent = current' + Len(inbox')
        /\ \A i \in 1..Len(inbox') : inbox'[i].id = current' + i
        /\ replied' = [replied EXCEPT ![current + 1] = @ + 1]
    BY <2>1, ReceivedNumber DEF FinalReply
  <2>3. \A n \in 1..MaxMessages : replied[n] = IF n <= current THEN 1 ELSE 0
    BY <2>1 DEF AnswerInv, AnsweredOnce, Handling, InTurn
  <2>4. \A n \in 1..MaxMessages : replied'[n] = IF n <= current' THEN 1 ELSE 0
    BY <1>0, <2>2, <2>3
  <2>5. QED
    BY <2>1, <2>2, <2>4 DEF AnswerInv, AnsweredOnce, Handling, InTurn
<1>2. CASE CommandDies
  <2>1. /\ \E command : Received(command)
        /\ pc = "waiting" /\ pc' = "dead" /\ UNCHANGED <<sent, replied>>
    BY <1>2 DEF CommandDies, Received
  <2>2. /\ current' = current + 1 /\ current' \in 1..MaxMessages
        /\ sent = current' + Len(inbox')
        /\ \A i \in 1..Len(inbox') : inbox'[i].id = current' + i
    BY <2>1, ReceivedNumber
  <2>3. \A n \in 1..MaxMessages : replied[n] = IF n <= current THEN 1 ELSE 0
    BY <2>1 DEF AnswerInv, AnsweredOnce, Handling, InTurn
  <2>4. \A n \in 1..MaxMessages :
            replied[n] = IF n <= current' /\ n # current' THEN 1 ELSE 0
    BY <1>0, <2>2, <2>3
  <2>5. QED
    BY <2>1, <2>2, <2>4 DEF AnswerInv, AnsweredOnce, Handling, InTurn
<1>3. QED
  BY <1>1, <1>2 DEF ControlStep, Reset, Notice, Save, SaveFails, Load,
                    SavePoint, Restore

LEMMA TurnAnswerInv == TypeOK /\ AnswerInv /\ TurnStep => AnswerInv'
<1> SUFFICES ASSUME TypeOK, AnswerInv, TurnStep PROVE AnswerInv'
  OBVIOUS
<1>0. current \in Nat /\ replied \in [1..MaxMessages -> Nat]
  BY AgentAssumption DEF TypeOK
<1>1. /\ pc \in InTurn /\ UNCHANGED <<inbox, sent, current>>
  BY DEF TurnStep, BeginStep, BeginStepFails, ReplyText, EndWithoutMessage,
         ReplyCalls, BadCall, StartTool, AskApproval, CheckBeforeApproval,
         TakeApproval, ApprovalTimeout, RunTool, FinishCalls, CallPending,
         CallDone, RejectCall, RejectedNotice, EndTurn, InTurn
<1>2. current \in 1..MaxMessages
  BY <1>0, <1>1, AgentAssumption DEF AnswerInv, TypeOK
<1>3. CASE EndTurn
  <2>1. pc' = "idle" /\ replied' = [replied EXCEPT ![current] = @ + 1]
    BY <1>3 DEF EndTurn, FinalReply
  <2>2. \A n \in 1..MaxMessages :
            replied[n] = IF n <= current /\ n # current THEN 1 ELSE 0
    BY <1>1 DEF AnswerInv, AnsweredOnce, Handling
  <2>3. \A n \in 1..MaxMessages : replied'[n] = IF n <= current THEN 1 ELSE 0
    BY <1>0, <1>2, <2>1, <2>2
  <2>4. QED
    BY <1>1, <2>1, <2>3 DEF AnswerInv, AnsweredOnce, Handling, InTurn
<1>4. CASE pc' \in InTurn /\ UNCHANGED replied
  BY <1>1, <1>4 DEF AnswerInv, AnsweredOnce, Handling, InTurn
<1>5. EndTurn \/ (pc' \in InTurn /\ UNCHANGED replied)
  BY DEF TurnStep, BeginStep, BeginStepFails, ReplyText, EndWithoutMessage,
         ReplyCalls, BadCall, StartTool, AskApproval, CheckBeforeApproval,
         TakeApproval, ApprovalTimeout, RunTool, FinishCalls, CallDone,
         RejectCall, RejectedNotice, InTurn
<1>6. QED
  BY <1>3, <1>4, <1>5

-----------------------------------------------------------------------------
(***************************************************************************)
(* The steps of the thread outside a turn, and the theorems.               *)
(***************************************************************************)

AgentInv == TypeOK /\ ContextInv /\ AnswerInv

LEMMA InitAgentInv == Init => AgentInv
BY InitTypeOK, InitContextInv, InitAnswerInv DEF AgentInv

LEMMA StepAgentInv == AgentInv /\ [Next]_vars => AgentInv'
<1> SUFFICES ASSUME AgentInv, [Next]_vars PROVE AgentInv'
  OBVIOUS
<1> USE DEF AgentInv
<1>1. CASE FrontendStep
  BY <1>1, FrontendTypeOK, FrontendContextInv, FrontendAnswerInv
<1>2. CASE ControlStep
  BY <1>2, ControlTypeOK, ControlContextInv, ControlAnswerInv
<1>3. CASE TurnStep
  BY <1>3, TurnTypeOK, TurnContextInv, TurnAnswerInv DEF AnswerInv
<1>4. CASE Start \/ CheckShutdown \/ WakeForShutdown
  <2>1. /\ pc \in {"starting", "idle", "waiting"}
        /\ pc' \in {"idle", "waiting", "stopped", "dead"}
        /\ pc' = "dead" => pc = "starting"
        /\ UNCHANGED <<queues, frontend, turn, conversation, store, replied>>
    BY <1>4 DEF Start, CheckShutdown, WakeForShutdown
  <2>2. TypeOK'
    BY <2>1 DEF TypeOK
  <2>3. ContextInv'
    BY <2>1 DEF ContextInv, StoredPaired, RunningCalls
  <2>4. AnswerInv'
    BY <2>1, AgentAssumption, SMTT(60)
    DEF AnswerInv, AnsweredOnce, Handling, InTurn, TypeOK
  <2>5. QED
    BY <2>2, <2>3, <2>4
<1>5. CASE ReceiveUser
  <2>1. /\ Received("user") /\ pc = "waiting" /\ pc' = "step"
        /\ conversation' = Append(conversation, UserMessage(Head(inbox).id))
        /\ rounds' = 0
        /\ UNCHANGED <<outbox, results, asks, grant, store, replied,
                       approvalReqs, approvalResps, frontend>>
    BY <1>5 DEF ReceiveUser, Received
  <2>2. /\ Head(inbox).id = current + 1
        /\ current' = current + 1 /\ current' \in 1..MaxMessages
        /\ sent = current' + Len(inbox')
        /\ \A i \in 1..Len(inbox') : inbox'[i].id = current' + i
    BY <2>1, ReceivedNumber
  <2>3. current \in Nat /\ UserMessage(current + 1) \in Message
    BY MessagesAreMessages, AgentAssumption DEF TypeOK
  <2>4. conversation \in Seq(Message) /\ inbox' \in Seq(Posted)
    BY <2>1, ReceivedType DEF TypeOK
  <2>5. TypeOK'
    <3>1. conversation' \in Seq(Message)
      BY <2>1, <2>2, <2>3, <2>4
    <3>2. current' \in 0..MaxMessages
      BY <2>2
    <3>3. QED
      BY <2>1, <2>4, <3>1, <3>2 DEF TypeOK, InTurn
  <2>6. ContextInv'
    <3>1. /\ UserMessage(current + 1).calls = <<>>
          /\ UserMessage(current + 1).results = <<>>
      BY DEF UserMessage
    <3>2. Paired(conversation)
      BY <2>1 DEF ContextInv, RunningCalls
    <3>3. Paired(conversation')
      BY <2>1, <2>2, <2>3, <2>4, <3>1, <3>2, PairedAppendText
    <3>4. QED
      BY <2>1, <3>3 DEF ContextInv, StoredPaired, RunningCalls
  <2>7. AnswerInv'
    <3>1. \A n \in 1..MaxMessages : replied[n] = IF n <= current THEN 1 ELSE 0
      BY <2>1 DEF AnswerInv, AnsweredOnce, Handling, InTurn
    <3>2. \A n \in 1..MaxMessages :
              replied[n] = IF n <= current' /\ n # current' THEN 1 ELSE 0
      BY <2>2, <2>3, <3>1
    <3>3. QED
      BY <2>1, <2>2, <3>2 DEF AnswerInv, AnsweredOnce, Handling, InTurn
  <2>8. QED
    BY <2>5, <2>6, <2>7
<1>6. CASE Rest \/ UNCHANGED vars
  <2>1. UNCHANGED vars
    BY <1>6 DEF Rest
  <2>2. TypeOK'
    BY <2>1 DEF TypeOK
  <2>3. ContextInv'
    BY <2>1 DEF ContextInv, StoredPaired, AskedFor
  <2>4. AnswerInv'
    BY <2>1 DEF AnswerInv, AnsweredOnce, Handling
  <2>5. QED
    BY <2>2, <2>3, <2>4
<1>7. QED
  BY <1>1, <1>2, <1>3, <1>4, <1>5, <1>6 DEF Next, AgentStep

\* The invariant of the agent thread.
LEMMA AgentInvariant == Spec => []AgentInv
BY InitAgentInv, StepAgentInv, PTL DEF Spec

\* The variables keep their types.
THEOREM AgentTypeCorrect == Spec => []TypeOK
<1>1. AgentInv => TypeOK
  BY DEF AgentInv
<1>2. QED
  BY <1>1, AgentInvariant, PTL

\* Every context sent to a model has its calls and results in pairs
\* (utils/agent.py:316-322, utils/llm.py:178-187).
THEOREM RequestsArePaired == Spec => []RequestsPaired
<1>1. AgentInv => RequestsPaired
  BY DEF AgentInv, ContextInv, RequestsPaired, RunningCalls
<1>2. QED
  BY <1>1, AgentInvariant, PTL

\* ... and so has everything kept in save points and files.
THEOREM StoresArePaired == Spec => []ContextInv
<1>1. AgentInv => ContextInv
  BY DEF AgentInv
<1>2. QED
  BY <1>1, AgentInvariant, PTL

\* No message gets two final replies, and none is left without one when the
\* agent goes on to the next (utils/agent.py:99-201, 362-404, 429-469).
THEOREM EachMessageAnsweredOnce == Spec => []AnsweredOnce
<1>1. AgentInv => AnsweredOnce
  BY DEF AgentInv, AnswerInv
<1>2. QED
  BY <1>1, AgentInvariant, PTL

-----------------------------------------------------------------------------
(***************************************************************************)
(* The request a turn works on stays in the context.                       *)
(***************************************************************************)

\* RequestKept says that the last clean start is the request.
LEMMA RequestIsLastStart ==
    RequestKept <=>
        (pc \in InTurn =>
            \E i \in CleanStarts(conversation) :
                /\ LastStart(conversation, i)
                /\ conversation[i] = UserMessage(current))
<1>1. IsCleanStart(UserMessage(current))
  BY DEF IsCleanStart, UserMessage
<1>2. QED
  BY <1>1 DEF RequestKept, LastStart, CleanStarts

\* A message appended in a turn opens nothing.
LEMMA AppendKeepsRequest ==
    ASSUME TypeOK, RequestKept, pc \in InTurn, UNCHANGED current,
           NEW m \in Message, ~IsCleanStart(m),
           conversation' = Append(conversation, m)
    PROVE  RequestKept'
<1>1. PICK i \in CleanStarts(conversation) :
          LastStart(conversation, i) /\ conversation[i] = UserMessage(current)
  BY RequestIsLastStart
<1>2. conversation \in Seq(Message)
  BY DEF TypeOK
<1>3. /\ LastStart(conversation', i)
      /\ conversation'[i] = UserMessage(current')
  BY <1>1, <1>2, AppendKeepsLastStart
<1>4. QED
  BY <1>3 DEF RequestKept, LastStart, CleanStarts

LEMMA BeginStepTurnInv ==
    ASSUME TypeOK, TurnInv, BeginStep
    PROVE  TurnInv'
<1>1. PICK max \in MaxLengths : conversation' = Prune(conversation, max)
  BY DEF BeginStep
<1>2. conversation \in Seq(Message) /\ max \in Nat
  BY AgentAssumption DEF TypeOK
<1>3. pc = "step" /\ pc' = "model" /\ current' = current
  BY DEF BeginStep
<1>4. PICK r \in CleanStarts(conversation) :
          LastStart(conversation, r) /\ conversation[r] = UserMessage(current)
  BY <1>3, RequestIsLastStart DEF TurnInv, InTurn
<1>5. RequestKept'
  <2>1. PICK i \in CleanStarts(conversation') :
            LastStart(conversation', i) /\ conversation'[i] = conversation[r]
    BY <1>1, <1>2, <1>4, PruneKeepsLastStart
  <2>2. QED
    BY <1>3, <1>4, <2>1 DEF RequestKept, LastStart, CleanStarts
<1>6. OnlyTheTurnExceedsTheLimit'
  <2>1. Len(conversation') <= max \/ conversation'[1] = conversation[r]
    BY <1>1, <1>2, <1>4, PruneExceedsWithLastStart
  <2>2. QED
    BY <1>3, <1>4, <2>1 DEF OnlyTheTurnExceedsTheLimit
<1>7. QED
  BY <1>3, <1>5, <1>6 DEF TurnInv, RunningCalls

LEMMA StepTurnInv == AgentInv /\ TurnInv /\ [Next]_vars => TurnInv'
<1> SUFFICES ASSUME AgentInv, TurnInv, [Next]_vars PROVE TurnInv'
  OBVIOUS
<1>0. TypeOK /\ ContextInv /\ conversation \in Seq(Message)
  BY DEF AgentInv, TypeOK
<1>1. CASE UNCHANGED <<pc, conversation, current>>
  BY <1>1 DEF TurnInv, RequestKept, OnlyTheTurnExceedsTheLimit, AskedFor
<1>2. CASE pc' \notin InTurn
  BY <1>2 DEF TurnInv, RequestKept, OnlyTheTurnExceedsTheLimit, RunningCalls,
              InTurn
<1>3. CASE /\ UNCHANGED <<conversation, current>>
           /\ pc \in RunningCalls /\ pc' \in RunningCalls
  BY <1>3 DEF TurnInv, RequestKept, OnlyTheTurnExceedsTheLimit, RunningCalls,
              InTurn, AskedFor
<1>4. CASE FrontendStep \/ Rest \/ UNCHANGED vars
  BY <1>1, <1>4 DEF FrontendStep, Send, TakeReply, ShowRequest, Answer,
                    SetVerbose, Shutdown, Rest
<1>5. CASE \/ Start \/ CheckShutdown \/ WakeForShutdown \/ ControlStep
           \/ BeginStepFails \/ ReplyText \/ EndWithoutMessage
  BY <1>2, <1>5 DEF Start, CheckShutdown, WakeForShutdown, ControlStep, Reset,
      Notice, Save, SaveFails, CommandDies, Load, SavePoint, Restore, Control,
      BeginStepFails, ReplyText, EndWithoutMessage, EndTurn, InTurn
<1>6. CASE ReceiveUser
  <2>1. /\ Received("user") /\ pc' = "step"
        /\ conversation' = Append(conversation, UserMessage(current'))
    BY <1>6 DEF ReceiveUser, Received
  <2>2. UserMessage(current') \in Message
    <3>1. Head(inbox).id \in 1..MaxMessages /\ current' = Head(inbox).id
      BY <1>0, <2>1, ReceivedType DEF Received
    <3>2. QED
      BY <3>1, MessagesAreMessages
  <2>3. IsCleanStart(UserMessage(current'))
    BY DEF IsCleanStart, UserMessage
  <2>4. /\ LastStart(conversation', Len(conversation) + 1)
        /\ conversation'[Len(conversation) + 1] = UserMessage(current')
    BY <1>0, <2>1, <2>2, <2>3, AppendedLastStart
  <2>5. RequestKept'
    BY <2>4 DEF RequestKept, LastStart, CleanStarts
  <2>6. QED
    BY <2>1, <2>5 DEF TurnInv, OnlyTheTurnExceedsTheLimit, RunningCalls
<1>7. CASE BeginStep
  BY <1>0, <1>7, BeginStepTurnInv
<1>8. CASE ReplyCalls
  <2>1. PICK cs \in CallSeqs :
            conversation' = Append(conversation, AssistantMessage(cs))
    BY <1>8 DEF ReplyCalls
  <2>2. pc = "model" /\ pc' = "tool" /\ current' = current
    BY <1>8 DEF ReplyCalls
  <2>3. /\ AssistantMessage(cs) \in Message /\ cs # <<>>
        /\ AssistantMessage(cs).calls = cs
        /\ ~IsCleanStart(AssistantMessage(cs))
    BY MessagesAreMessages, AgentAssumption DEF AssistantMessage, IsCleanStart
  <2>4. RequestKept'
    BY <1>0, <2>1, <2>2, <2>3, AppendKeepsRequest DEF TurnInv, InTurn
  <2>5. AskedFor' # <<>>
    <3>1. conversation'[Len(conversation')] = AssistantMessage(cs)
      BY <1>0, <2>1, <2>3
    <3>2. QED
      BY <2>3, <3>1 DEF AskedFor
  <2>6. QED
    BY <2>2, <2>4, <2>5 DEF TurnInv, OnlyTheTurnExceedsTheLimit
<1>9. CASE \/ BadCall \/ StartTool \/ AskApproval \/ CheckBeforeApproval
           \/ TakeApproval \/ ApprovalTimeout \/ RunTool
  BY <1>3, <1>9 DEF BadCall, StartTool, AskApproval, CheckBeforeApproval,
      TakeApproval, ApprovalTimeout, RunTool, CallPending, CallDone,
      RejectCall, RunningCalls
<1>10. CASE FinishCalls
  <2>1. /\ pc = "tool" /\ Len(results) = Len(AskedFor) /\ AskedFor # <<>>
        /\ conversation' = Append(conversation, ResultsMessage(results))
        /\ pc' = "step" /\ current' = current
    BY <1>10 DEF FinishCalls, TurnInv, RunningCalls
  <2>2. results # <<>> /\ results \in Seq(Calls)
    <3>1. conversation[Len(conversation)] \in Message
      BY <1>0, <2>1 DEF ContextInv, RunningCalls
    <3>2. AskedFor \in Seq(Calls) /\ results \in Seq(Calls)
      BY <1>0, <3>1 DEF AskedFor, Message, TypeOK
    <3>3. QED
      BY <2>1, <3>2
  <2>3. /\ ResultsMessage(results) \in Message
        /\ ~IsCleanStart(ResultsMessage(results))
    BY <2>2, MessagesAreMessages DEF ResultsMessage, IsCleanStart
  <2>4. RequestKept'
    BY <1>0, <2>1, <2>3, AppendKeepsRequest DEF TurnInv, InTurn
  <2>5. QED
    BY <2>1, <2>4 DEF TurnInv, OnlyTheTurnExceedsTheLimit, RunningCalls
<1>11. QED
  BY <1>4, <1>5, <1>6, <1>7, <1>8, <1>9, <1>10
  DEF Next, AgentStep, TurnStep

LEMMA TurnInvariant == Spec => []TurnInv
<1>1. Init => TurnInv
  BY DEF Init, TurnInv, RequestKept, OnlyTheTurnExceedsTheLimit, RunningCalls,
         InTurn
<1>2. QED
  BY <1>1, AgentInvariant, StepTurnInv, PTL DEF Spec

\* Whatever limit is set, and however often the context is pruned within a
\* turn, the request being worked on is in it, and no later one
\* (utils/llm.py:151-187).
THEOREM TheRequestIsKept == Spec => []RequestKept
<1>1. TurnInv => RequestKept
  BY DEF TurnInv
<1>2. QED
  BY <1>1, TurnInvariant, PTL

\* A context goes over the limit only with what the turn itself added: all
\* that went before was cut off (utils/llm.py:151-187).
THEOREM OnlyATurnIsTooLong == Spec => []OnlyTheTurnExceedsTheLimit
<1>1. TurnInv => OnlyTheTurnExceedsTheLimit
  BY DEF TurnInv
<1>2. QED
  BY <1>1, TurnInvariant, PTL

-----------------------------------------------------------------------------
(***************************************************************************)
(* Approvals: requests and answers keep the order of asking.               *)
(***************************************************************************)

LEMMA AnswerNumbers ==
    TypeOK => \A i \in DOMAIN approvalResps : approvalResps[i].ask \in Nat
<1> SUFFICES ASSUME TypeOK, NEW i \in DOMAIN approvalResps
             PROVE  approvalResps[i].ask \in Nat
  OBVIOUS
<1>1. approvalResps \in Seq([ask : Nat, approved : BOOLEAN])
  BY DEF TypeOK
<1> DEFINE Response == [ask : Nat, approved : BOOLEAN]
<1>2. \A q \in Seq(Response) : \A k \in DOMAIN q : q[k] \in Response
  <2> HIDE DEF Response
  <2> QED OBVIOUS
<1>3. QED
  BY <1>1, <1>2

\* A step that neither asks, shows nor answers; it may withdraw the grant.
LEMMA QuietApprovalInv ==
    ASSUME TypeOK, ApprovalInv,
           UNCHANGED <<approvalReqs, approvalResps, prompted, asks>>,
           grant' \in {grant, 0}
    PROVE  ApprovalInv'
<1>1. \A i \in DOMAIN approvalReqs : approvalReqs[i] \in Nat
  BY DEF TypeOK
<1>2. \A i \in DOMAIN approvalResps : approvalResps[i].ask \in Nat
  BY AnswerNumbers
<1>3. grant \in Nat /\ prompted \in Nat /\ asks \in Nat
  BY DEF TypeOK
<1>4. CASE grant' = grant
  BY <1>4 DEF ApprovalInv, Increasing
<1>5. CASE grant' = 0
  BY <1>1, <1>2, <1>3, <1>5 DEF ApprovalInv, Increasing
<1>6. QED
  BY <1>4, <1>5

LEMMA FrontendApprovalInv ==
    TypeOK /\ ApprovalInv /\ FrontendStep => ApprovalInv'
<1> SUFFICES ASSUME TypeOK, ApprovalInv, FrontendStep PROVE ApprovalInv'
  OBVIOUS
<1>0. /\ approvalReqs \in Seq(Nat)
      /\ approvalResps \in Seq([ask : Nat, approved : BOOLEAN])
      /\ grant \in Nat /\ prompted \in Nat /\ asks \in Nat
  BY DEF TypeOK
<1>1. CASE ShowRequest
  <2>1. /\ prompted = 0 /\ approvalReqs # <<>>
        /\ prompted' = approvalReqs[1] /\ approvalReqs' = Tail(approvalReqs)
        /\ UNCHANGED <<approvalResps, grant, asks>>
    BY <1>0, <1>1 DEF ShowRequest, turn
  <2>2. /\ 1 \in DOMAIN approvalReqs
        /\ DOMAIN approvalReqs' = 1..Len(approvalReqs) - 1
        /\ \A i \in DOMAIN approvalReqs' :
               /\ i + 1 \in DOMAIN approvalReqs
               /\ approvalReqs'[i] = approvalReqs[i + 1]
    BY <1>0, <2>1
  <2>3. \A i \in DOMAIN approvalReqs' : approvalReqs[1] < approvalReqs'[i]
    BY <2>2 DEF ApprovalInv, Increasing
  <2>4. Increasing(approvalReqs')
    <3>1. ASSUME NEW i \in DOMAIN approvalReqs', NEW j \in DOMAIN approvalReqs',
                 i < j
          PROVE  approvalReqs'[i] < approvalReqs'[j]
      <4>1. i + 1 < j + 1
        BY <2>2, <3>1
      <4>2. QED
        BY <2>2, <4>1 DEF ApprovalInv, Increasing
    <3>2. QED
      BY <3>1 DEF Increasing
  <2>5. Increasing([i \in DOMAIN approvalResps |-> approvalResps[i].ask])'
    BY <2>1 DEF ApprovalInv
  <2>6. QED
    BY <1>0, <2>1, <2>2, <2>3, <2>4, <2>5 DEF ApprovalInv
<1>2. ASSUME NEW approved \in BOOLEAN, Answer(approved) PROVE ApprovalInv'
  <2>1. /\ prompted # 0 /\ prompted' = 0
        /\ approvalResps' = Append(approvalResps,
                                   [ask |-> prompted, approved |-> approved])
        /\ UNCHANGED <<approvalReqs, grant, asks>>
    BY <1>2 DEF Answer, turn
  <2>2. /\ DOMAIN approvalResps' = 1..Len(approvalResps) + 1
        /\ approvalResps'[Len(approvalResps) + 1].ask = prompted
        /\ \A i \in 1..Len(approvalResps) :
               approvalResps'[i] = approvalResps[i]
        /\ DOMAIN approvalResps = 1..Len(approvalResps)
        /\ Len(approvalResps) \in Nat
    BY <1>0, <2>1
  <2>3. Increasing([i \in DOMAIN approvalResps |-> approvalResps[i].ask])'
    <3>1. ASSUME NEW i \in DOMAIN approvalResps',
                 NEW j \in DOMAIN approvalResps', i < j
          PROVE  approvalResps'[i].ask < approvalResps'[j].ask
      <4>1. CASE j = Len(approvalResps) + 1
        BY <2>1, <2>2, <3>1, <4>1 DEF ApprovalInv
      <4>2. CASE j \in 1..Len(approvalResps)
        BY <2>2, <3>1, <4>2 DEF ApprovalInv, Increasing
      <4>3. QED
        BY <2>2, <4>1, <4>2
    <3>2. QED
      BY <3>1 DEF Increasing
  <2>4. ASSUME NEW i \in DOMAIN approvalResps'
        PROVE  /\ grant < approvalResps'[i].ask
               /\ approvalResps'[i].ask <= asks
               /\ \A j \in DOMAIN approvalReqs :
                      approvalResps'[i].ask < approvalReqs[j]
    <3>1. CASE i = Len(approvalResps) + 1
      BY <2>1, <2>2, <3>1 DEF ApprovalInv
    <3>2. CASE i \in 1..Len(approvalResps)
      BY <2>2, <3>2 DEF ApprovalInv
    <3>3. QED
      BY <2>2, <3>1, <3>2
  <2>5. \A i \in DOMAIN approvalReqs : 0 < approvalReqs[i]
    BY <1>0 DEF ApprovalInv
  <2>6. Increasing(approvalReqs') /\ grant' <= asks' /\ prompted' <= asks'
    BY <1>0, <2>1 DEF ApprovalInv
  <2>7. \A i \in DOMAIN approvalReqs :
            grant < approvalReqs[i] /\ approvalReqs[i] <= asks
    BY DEF ApprovalInv
  <2>8. QED
    BY <2>1, <2>3, <2>4, <2>5, <2>6, <2>7 DEF ApprovalInv
<1>3. CASE UNCHANGED <<approvalReqs, approvalResps, prompted, asks, grant>>
  BY <1>3, QuietApprovalInv
<1>4. QED
  BY <1>1, <1>2, <1>3
  DEF FrontendStep, Send, TakeReply, SetVerbose, Shutdown, queues, turn

\* The agent asks.
LEMMA AskApprovalInv ==
    ASSUME TypeOK, ApprovalInv, AskApproval
    PROVE  ApprovalInv'
<1>0. /\ approvalReqs \in Seq(Nat)
      /\ approvalResps \in Seq([ask : Nat, approved : BOOLEAN])
      /\ grant \in Nat /\ prompted \in Nat /\ asks \in Nat
  BY DEF TypeOK
<1>1. /\ asks' = asks + 1 /\ approvalReqs' = Append(approvalReqs, asks + 1)
      /\ UNCHANGED <<approvalResps, prompted, grant>>
  BY DEF AskApproval, frontend
<1>2. /\ DOMAIN approvalReqs' = 1..Len(approvalReqs) + 1
      /\ approvalReqs'[Len(approvalReqs) + 1] = asks + 1
      /\ \A i \in 1..Len(approvalReqs) : approvalReqs'[i] = approvalReqs[i]
      /\ DOMAIN approvalReqs = 1..Len(approvalReqs)
      /\ Len(approvalReqs) \in Nat
  BY <1>0, <1>1
<1>3. \A i \in DOMAIN approvalResps : approvalResps[i].ask \in Nat
  BY AnswerNumbers
<1>4. ASSUME NEW i \in DOMAIN approvalReqs'
      PROVE  /\ grant < approvalReqs'[i] /\ approvalReqs'[i] <= asks'
             /\ prompted < approvalReqs'[i]
             /\ \A j \in DOMAIN approvalResps :
                    approvalResps[j].ask < approvalReqs'[i]
  <2>1. CASE i = Len(approvalReqs) + 1
    BY <1>0, <1>1, <1>2, <1>3, <2>1 DEF ApprovalInv
  <2>2. CASE i \in 1..Len(approvalReqs)
    BY <1>0, <1>1, <1>2, <2>2 DEF ApprovalInv
  <2>3. QED
    BY <1>2, <2>1, <2>2
<1>5. Increasing(approvalReqs')
  <2>1. ASSUME NEW i \in DOMAIN approvalReqs', NEW j \in DOMAIN approvalReqs',
               i < j
        PROVE  approvalReqs'[i] < approvalReqs'[j]
    <3>1. CASE j = Len(approvalReqs) + 1
      BY <1>0, <1>2, <2>1, <3>1, SMTT(60) DEF ApprovalInv
    <3>2. CASE j \in 1..Len(approvalReqs)
      BY <1>2, <2>1, <3>2 DEF ApprovalInv, Increasing
    <3>3. QED
      BY <1>2, <3>1, <3>2
  <2>2. QED
    BY <2>1 DEF Increasing
<1>6. Increasing([i \in DOMAIN approvalResps |-> approvalResps[i].ask])'
  BY <1>1 DEF ApprovalInv
<1>7. /\ \A i \in DOMAIN approvalResps : approvalResps[i].ask <= asks'
      /\ grant' <= asks' /\ prompted' <= asks'
  BY <1>0, <1>1, <1>3 DEF ApprovalInv
<1>8. QED
  BY <1>1, <1>4, <1>5, <1>6, <1>7 DEF ApprovalInv

\* The agent takes an answer, whoever's it is: every other one is younger.
LEMMA TakeApprovalInv ==
    ASSUME TypeOK, ApprovalInv, TakeApproval
    PROVE  ApprovalInv'
<1>0. /\ approvalReqs \in Seq(Nat)
      /\ approvalResps \in Seq([ask : Nat, approved : BOOLEAN])
      /\ grant \in Nat /\ prompted \in Nat /\ asks \in Nat
  BY DEF TypeOK
<1>1. /\ approvalResps # <<>> /\ approvalResps' = Tail(approvalResps)
      /\ UNCHANGED <<approvalReqs, prompted, asks>>
      /\ grant' \in {approvalResps[1].ask, 0}
  BY <1>0 DEF TakeApproval, RejectCall, CallDone, frontend
<1>2. /\ 1 \in DOMAIN approvalResps
      /\ DOMAIN approvalResps' = 1..Len(approvalResps) - 1
      /\ \A i \in DOMAIN approvalResps' :
             /\ i + 1 \in DOMAIN approvalResps
             /\ approvalResps'[i] = approvalResps[i + 1]
  BY <1>0, <1>1
<1>3. \A i \in DOMAIN approvalResps :
          \A j \in DOMAIN approvalResps :
              i < j => approvalResps[i].ask < approvalResps[j].ask
  BY DEF ApprovalInv, Increasing
<1>4. \A i \in DOMAIN approvalResps : approvalResps[i].ask \in Nat
  BY AnswerNumbers
<1>5. \A i \in DOMAIN approvalResps' :
          approvalResps[1].ask < approvalResps'[i].ask
  BY <1>2, <1>3
<1>6. Increasing([i \in DOMAIN approvalResps |-> approvalResps[i].ask])'
  <2>1. ASSUME NEW i \in DOMAIN approvalResps',
               NEW j \in DOMAIN approvalResps', i < j
        PROVE  approvalResps'[i].ask < approvalResps'[j].ask
    <3>1. i + 1 < j + 1
      BY <1>2, <2>1
    <3>2. QED
      BY <1>2, <1>3, <3>1
  <2>2. QED
    BY <2>1 DEF Increasing
<1>7. \A i \in DOMAIN approvalResps' :
          /\ grant' < approvalResps'[i].ask /\ approvalResps'[i].ask <= asks
          /\ prompted # 0 => approvalResps'[i].ask < prompted
          /\ \A j \in DOMAIN approvalReqs :
                 approvalResps'[i].ask < approvalReqs[j]
  BY <1>1, <1>2, <1>4, <1>5 DEF ApprovalInv
<1>8. /\ grant' <= asks
      /\ \A j \in DOMAIN approvalReqs : grant' < approvalReqs[j]
      /\ prompted # 0 => grant' < prompted
  BY <1>0, <1>1, <1>2 DEF ApprovalInv
<1>9. QED
  BY <1>1, <1>6, <1>7, <1>8 DEF ApprovalInv

LEMMA StepApprovalInv ==
    TypeOK /\ ApprovalInv /\ [Next]_vars => ApprovalInv'
<1> SUFFICES ASSUME TypeOK, ApprovalInv, [Next]_vars PROVE ApprovalInv'
  OBVIOUS
<1> DEFINE Quiet ==
        /\ UNCHANGED <<approvalReqs, approvalResps, prompted, asks>>
        /\ grant' \in {grant, 0}
<1>1. CASE FrontendStep
  BY <1>1, FrontendApprovalInv
<1>2. CASE AskApproval
  BY <1>2, AskApprovalInv
<1>3. CASE TakeApproval
  BY <1>3, TakeApprovalInv
<1>4. CASE ControlStep
  <2>1. Quiet
    BY <1>4 DEF ControlStep, Reset, Notice, Save, SaveFails, CommandDies, Load,
                SavePoint, Restore, Control, Received, frontend
  <2>2. QED
    BY <2>1, QuietApprovalInv
<1>5. CASE TurnStep /\ ~AskApproval /\ ~TakeApproval
  <2>1. Quiet
    BY <1>5 DEF TurnStep, BeginStep, BeginStepFails, ReplyText,
         EndWithoutMessage, ReplyCalls, BadCall, StartTool,
         CheckBeforeApproval, ApprovalTimeout, RunTool, FinishCalls,
         CallDone, RejectCall, EndTurn, queues, frontend, turn
  <2>2. QED
    BY <2>1, QuietApprovalInv
<1>6. CASE Start \/ CheckShutdown \/ WakeForShutdown \/ ReceiveUser \/ Rest
             \/ UNCHANGED vars
  <2>1. Quiet
    BY <1>6 DEF Start, CheckShutdown, WakeForShutdown, ReceiveUser, Received,
                Rest, vars, queues, frontend, turn
  <2>2. QED
    BY <2>1, QuietApprovalInv
<1>7. QED
  BY <1>1, <1>2, <1>3, <1>4, <1>5, <1>6 DEF Next, AgentStep

LEMMA ApprovalInvariant == Spec => []ApprovalInv
<1>1. Init => ApprovalInv
  BY DEF Init, ApprovalInv, Increasing
<1>2. QED
  BY <1>1, AgentTypeCorrect, StepApprovalInv, PTL DEF Spec

\* One approval never lets two tools run, however late it comes and whatever
\* was rejected or timed out before (utils/agent.py:338-344).
THEOREM ApprovalsAreUsedOnce == Spec => []ApprovalUsedOnce
<1>1. TypeOK /\ ApprovalInv => ApprovalUsedOnce
  BY DEF TypeOK, ApprovalInv, ApprovalUsedOnce
<1>2. QED
  BY <1>1, AgentTypeCorrect, ApprovalInvariant, PTL

-----------------------------------------------------------------------------
(***************************************************************************)
(* For frontends that send one message at a time.                          *)
(***************************************************************************)

\* The agent sends no messages, shows no requests, closes nothing and sets no
\* mode.
LEMMA AgentLeavesFrontend == AgentStep => UNCHANGED frontend
BY DEF AgentStep, Start, CheckShutdown, WakeForShutdown,
    ReceiveUser, Received, ControlStep, Reset, Notice, Save, SaveFails,
    CommandDies, Load, SavePoint, Restore, Control,
    TurnStep, BeginStep, BeginStepFails, ReplyText, EndWithoutMessage,
    ReplyCalls, BadCall, StartTool, AskApproval, CheckBeforeApproval,
    TakeApproval, ApprovalTimeout, RunTool, FinishCalls, EndTurn, RejectCall,
    CallDone

\* The agent moves the line on: from the queue to its hands, from its hands to
\* the queue back, or, for a command, all the way at once.
LEMMA AgentKeepsInOnePlace ==
    ASSUME TypeOK, AnswerInv, AgentStep, InOnePlace,
           pc \in {"asked", "approval"} => ~RejectCall
    PROVE  InOnePlace'
<1>0. /\ inbox \in Seq(Posted) /\ outbox \in Seq(Published)
      /\ sent \in Nat /\ current \in Nat
    BY AgentAssumption DEF TypeOK
<1>1. pc \in {"asked", "approval"} => ~RejectCall
    OBVIOUS
<1>2. sent = current + Len(inbox) /\ sent' = sent
    BY AgentLeavesFrontend DEF AnswerInv
<1>3. ASSUME NEW command, Received(command)
      PROVE  /\ pc = "waiting" /\ inbox' = <<>> /\ outbox = <<>>
             /\ Head(inbox).id = sent /\ current' = sent
    <2>1. inbox # <<>> /\ pc = "waiting" /\ inbox' = Tail(inbox)
          /\ current' = Head(inbox).id
        BY <1>3 DEF Received
    <2>2. Len(inbox) = 1 /\ outbox = <<>>
        BY <2>1 DEF InOnePlace
    <2>3. inbox' = <<>> /\ Head(inbox) = inbox[1]
        BY <1>0, <2>1, <2>2
    <2>4. inbox[1].id = current + 1
        BY <2>2 DEF AnswerInv
    <2> QED
        BY <1>2, <2>1, <2>2, <2>3, <2>4
<1>4. ASSUME pc \in InTurn
      PROVE  inbox = <<>> /\ outbox = <<>> /\ current = sent
    BY <1>0, <1>2, <1>4 DEF InOnePlace
<1>5. CASE /\ UNCHANGED <<inbox, outbox>>
           /\ pc \in InTurn <=> pc' \in InTurn
           /\ pc # "dead"
    BY <1>2, <1>5 DEF InOnePlace
<1>6. CASE Start \/ CheckShutdown \/ WakeForShutdown
    BY <1>5, <1>6 DEF Start, CheckShutdown, WakeForShutdown, InTurn
<1>7. CASE ReceiveUser
    <2>1. Received("user") /\ pc' = "step" /\ UNCHANGED outbox
        BY <1>7 DEF ReceiveUser
    <2> QED
        BY <1>3, <2>1 DEF InOnePlace, InTurn
<1>8. CASE CommandDies
    <2>1. /\ \E command : Received(command)
          /\ pc' = "dead" /\ UNCHANGED outbox
        BY <1>8 DEF CommandDies
    <2> QED
        BY <1>3, <2>1 DEF InOnePlace, InTurn
<1>9. CASE ControlStep /\ ~CommandDies
    <2>1. PICK command : Control(command)
        BY <1>9 DEF ControlStep, Reset, Notice, Save, SaveFails, Load,
                    SavePoint, Restore
    <2>2. Received(command) /\ FinalReply(Head(inbox).id) /\ pc' = "idle"
        BY <2>1 DEF Control
    <2>3. Head(inbox).id = sent' /\ outbox = <<>> /\ inbox' = <<>>
        BY <1>2, <1>3, <2>2
    <2>4. outbox' = <<[to |-> sent', kind |-> "final"]>>
        BY <2>2, <2>3 DEF FinalReply
    <2> QED
        BY <2>2, <2>3, <2>4 DEF InOnePlace, InTurn
<1>10. CASE BeginStepFails \/ ReplyText \/ EndWithoutMessage
    <2>1. EndTurn /\ pc \in InTurn
        BY <1>10 DEF BeginStepFails, ReplyText, EndWithoutMessage, InTurn
    <2>2. FinalReply(current) /\ pc' = "idle" /\ UNCHANGED inbox
        BY <2>1 DEF EndTurn
    <2>3. outbox' = <<[to |-> sent', kind |-> "final"]>> /\ inbox' = <<>>
        BY <1>2, <1>4, <2>1, <2>2 DEF FinalReply
    <2> QED
        BY <2>2, <2>3 DEF InOnePlace, InTurn
<1>11. CASE \/ BeginStep \/ ReplyCalls \/ BadCall \/ StartTool \/ AskApproval
            \/ CheckBeforeApproval \/ TakeApproval \/ ApprovalTimeout
            \/ RunTool \/ FinishCalls
    BY <1>1, <1>5, <1>11 DEF BeginStep, ReplyCalls, BadCall, StartTool,
        AskApproval, CheckBeforeApproval, TakeApproval, ApprovalTimeout,
        RunTool, FinishCalls, CallPending, CallDone, InTurn
<1> QED
    BY <1>6, <1>7, <1>8, <1>9, <1>10, <1>11
    DEF AgentStep, TurnStep

\* With nothing left to do the agent does nothing that could be seen.
LEMMA AgentKeepsNothingLeft ==
    ASSUME AgentStep, NothingLeft
    PROVE  NothingLeft'
<1>1. pc \notin InTurn /\ inbox = <<>>
    BY DEF NothingLeft
<1>2. Start \/ CheckShutdown \/ WakeForShutdown
    BY <1>1 DEF AgentStep, ReceiveUser, Received,
        ControlStep, Reset, Notice, Save, SaveFails, CommandDies, Load,
        SavePoint, Restore, Control,
        TurnStep, BeginStep, BeginStepFails, ReplyText, EndWithoutMessage,
        ReplyCalls, BadCall, StartTool, AskApproval, CheckBeforeApproval,
        TakeApproval, ApprovalTimeout, RunTool, FinishCalls, CallPending,
        InTurn
<1> QED
    BY <1>2 DEF NothingLeft, Start, CheckShutdown, WakeForShutdown, InTurn

\* A message sent when nothing is left is all there is ...
LEMMA SentIsInOnePlace ==
    ASSUME TypeOK, NothingLeft, NEW input, Send(input)
    PROVE  InOnePlace' /\ sent' = sent + 1
<1>1. /\ inbox = <<>> /\ outbox = <<>> /\ pc \notin InTurn
      /\ inbox' = Append(inbox, [id |-> sent + 1, input |-> input])
      /\ sent' = sent + 1 /\ UNCHANGED <<outbox, pc>>
    BY DEF NothingLeft, Send
<1>2. Len(inbox') = 1
    BY <1>1
<1> QED
    BY <1>1, <1>2 DEF InOnePlace

\* ... and what is taken next is its final reply, and leaves nothing.
LEMMA TakenIsFinal ==
    ASSUME InOnePlace, TakeReply
    PROVE  NothingLeft' /\ Head(outbox) = [to |-> sent, kind |-> "final"]
<1>1. /\ inbox = <<>> /\ pc \notin InTurn
      /\ outbox = <<[to |-> sent, kind |-> "final"]>>
      /\ outbox' = Tail(outbox) /\ UNCHANGED <<inbox, pc>>
    BY DEF InOnePlace, TakeReply
<1>2. outbox' = <<>> /\ Head(outbox) = [to |-> sent, kind |-> "final"]
    BY <1>1
<1> QED
    BY <1>1, <1>2 DEF NothingLeft

=============================================================================
