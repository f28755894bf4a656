--------------------------- MODULE SpendingProofs ---------------------------
(***************************************************************************)
(* What an evaluation spends is accounted for, proved for every number of  *)
(* calls, cases, permits, attempts and judge calls.                        *)
(***************************************************************************)
EXTENDS LiveGate, ProviderCalls, FiniteSetTheorems, TLAPS

(***************************************************************************)
(* Part 1: ProviderCalls.  What one call's locals have to do with the      *)
(* phase it is in.                                                         *)
(***************************************************************************)
Outcomes == {"done", "failed", "cancelled"}

CallRecords ==
  [phase : Phases, route : Routes, fallback : BOOLEAN, tries : Nat, once : BOOLEAN,
   mayFall : BOOLEAN, accepted : BOOLEAN, rows : Nat, outcome : Outcomes, accepts : Nat,
   letGo : BOOLEAN]

Unsent == {"idle", "reserve", "queue", "switch", "backoff"}
Waiting == {"reserve", "switch", "backoff"}
Reading == {"stream", "yielded"}
Live == Unsent \cup {"open"} \cup Reading

Limit(r) == IF r.route = "openai" \/ r.fallback \/ r.once THEN 1 ELSE MaxRetries

\* Before an attempt is accepted nothing was; while its answer is read exactly this one
\* was; a row is written on the way into "record"; and only a call that is over can have
\* been let go.
CallSound(r) ==
  /\ r \in CallRecords
  /\ r.tries <= MaxRetries
  /\ r.phase \in Waiting => r.tries < Limit(r)
  /\ r.phase \in Unsent \cup {"open"} => r.accepts = 0
  /\ r.phase \in {"queue", "open"} => ~r.accepted
  /\ r.phase \in Reading => r.accepts = 1 /\ r.accepted
  /\ r.phase \in Live => r.rows = 0
  /\ r.phase \notin Outcomes => ~r.letGo
  /\ r.phase = "record" => r.rows = 1
  /\ r.rows <= 1 /\ r.accepts <= 1
  /\ r.phase \in Outcomes /\ r.accepts > 0 /\ ~r.letGo => r.rows = 1
  /\ r.phase = "queue" => r.route = "anthropic"

LEMMA CallConstants ==
  /\ Explanations \subseteq Calls
  /\ Quota \in Nat /\ Permits \in Nat /\ MaxRetries \in Nat /\ MaxRetries >= 1
  /\ MaxRestarts \in Nat
BY CallsAssumption

LEMMA FreshTyped == Fresh \in CallRecords
BY DEF Fresh, CallRecords, Phases, Routes, Outcomes

LEMMA FreshSound == CallSound(Fresh)
BY FreshTyped, CallConstants
DEF CallSound, Fresh, Waiting, Unsent, Reading, Live, Outcomes

\* A field of a call's locals is assigned.
LEMMA PhaseTyped ==
  ASSUME NEW r \in CallRecords, NEW p \in Phases PROVE [r EXCEPT !.phase = p] \in CallRecords
BY DEF CallRecords

LEMMA RouteTyped ==
  ASSUME NEW r \in CallRecords, NEW p \in Routes PROVE [r EXCEPT !.route = p] \in CallRecords
BY DEF CallRecords

LEMMA RowsTyped ==
  ASSUME NEW r \in CallRecords, NEW n \in Nat PROVE [r EXCEPT !.rows = n] \in CallRecords
BY DEF CallRecords

LEMMA TriesTyped ==
  ASSUME NEW r \in CallRecords, NEW n \in Nat PROVE [r EXCEPT !.tries = n] \in CallRecords
BY DEF CallRecords

LEMMA AcceptsTyped ==
  ASSUME NEW r \in CallRecords, NEW n \in Nat PROVE [r EXCEPT !.accepts = n] \in CallRecords
BY DEF CallRecords

LEMMA OutcomeTyped ==
  ASSUME NEW r \in CallRecords, NEW o \in Outcomes
  PROVE  [r EXCEPT !.outcome = o] \in CallRecords
BY DEF CallRecords

LEMMA FlagsTyped ==
  ASSUME NEW r \in CallRecords, NEW b \in BOOLEAN
  PROVE  /\ [r EXCEPT !.accepted = b] \in CallRecords /\ [r EXCEPT !.fallback = b] \in CallRecords
         /\ [r EXCEPT !.once = b] \in CallRecords /\ [r EXCEPT !.mayFall = b] \in CallRecords
         /\ [r EXCEPT !.letGo = b] \in CallRecords
BY DEF CallRecords

\* The steps of a call: what they make of its locals.
LEMMA BegunSound ==
  ASSUME NEW route \in Routes, NEW once \in BOOLEAN, NEW mayFall \in BOOLEAN
  PROVE  CallSound([Fresh EXCEPT !.phase = "reserve", !.route = route, !.once = once,
                                 !.mayFall = mayFall])
<1> DEFINE a == [Fresh EXCEPT !.phase = "reserve"]
           b == [a EXCEPT !.route = route]
           d == [b EXCEPT !.once = once]
           n == [Fresh EXCEPT !.phase = "reserve", !.route = route, !.once = once,
                              !.mayFall = mayFall]
<1>1. a \in CallRecords
  <2>1. "reserve" \in Phases
    BY DEF Phases
  <2> QED
    BY <2>1, FreshTyped, PhaseTyped
<1>2. b \in CallRecords
  <2> HIDE DEF a
  <2> QED
    BY <1>1, RouteTyped
<1>3. d \in CallRecords
  <2> HIDE DEF b
  <2> QED
    BY <1>2, FlagsTyped
<1>4. n \in CallRecords
  <2> HIDE DEF d
  <2>1. [d EXCEPT !.mayFall = mayFall] \in CallRecords
    BY <1>3, FlagsTyped
  <2> QED
    BY <2>1 DEF d
<1>5. /\ n.phase = "reserve" /\ n.tries = 0 /\ n.rows = 0 /\ n.accepts = 0 /\ ~n.letGo
  BY DEF Fresh
<1> HIDE DEF n
<1>6. Limit(n) \in Nat /\ Limit(n) >= 1
  BY CallConstants DEF Limit
<1>7. CallSound(n)
  BY <1>4, <1>5, <1>6, CallConstants
  DEF CallSound, Waiting, Unsent, Reading, Live, Outcomes
<1> QED
  BY <1>7 DEF n

LEMMA PhaseOnly ==
  ASSUME NEW r \in CallRecords, NEW p \in Phases
  PROVE  LET n == [r EXCEPT !.phase = p] IN
         /\ n.phase = p /\ n.route = r.route /\ n.fallback = r.fallback /\ n.tries = r.tries
         /\ n.once = r.once /\ n.accepted = r.accepted /\ n.rows = r.rows
         /\ n.accepts = r.accepts /\ n.letGo = r.letGo /\ n.outcome = r.outcome
BY DEF CallRecords

LEMMA RecordedSound ==
  ASSUME NEW r, CallSound(r), r.phase \in Live, NEW o \in Outcomes
  PROVE  CallSound([r EXCEPT !.phase = "record", !.rows = @ + 1, !.outcome = o])
<1> DEFINE a == [r EXCEPT !.phase = "record"]
           b == [a EXCEPT !.rows = @ + 1]
           n == [r EXCEPT !.phase = "record", !.rows = @ + 1, !.outcome = o]
<1>1. a \in CallRecords /\ a.rows = r.rows /\ r.rows = 0
  BY PhaseTyped, PhaseOnly DEF CallSound, Phases
<1>2. b \in CallRecords
  <2> HIDE DEF a
  <2>1. a.rows + 1 \in Nat
    BY <1>1
  <2> QED
    BY <1>1, <2>1, RowsTyped
<1>3. n \in CallRecords
  <2> HIDE DEF b
  <2>1. [b EXCEPT !.outcome = o] \in CallRecords
    BY <1>2, OutcomeTyped
  <2> QED
    BY <2>1 DEF b
<1>4. /\ n.phase = "record" /\ n.rows = r.rows + 1 /\ n.accepts = r.accepts
      /\ n.letGo = r.letGo /\ n.tries = r.tries
  BY DEF CallSound, CallRecords
<1> HIDE DEF n
<1>5. CallSound(n)
  BY <1>1, <1>3, <1>4 DEF CallSound, Waiting, Unsent, Reading, Live, Outcomes
<1> QED
  BY <1>5 DEF n

LEMMA GoneFields ==
  ASSUME NEW r \in CallRecords, NEW p \in Outcomes
  PROVE  /\ Gone(r, p) \in CallRecords
         /\ Gone(r, p).phase = p /\ Gone(r, p).rows = r.rows
         /\ Gone(r, p).accepts = r.accepts /\ Gone(r, p).letGo = r.letGo
         /\ Gone(r, p).tries = 0
<1> DEFINE a == [Fresh EXCEPT !.phase = p]
           b == [a EXCEPT !.rows = r.rows]
           d == [b EXCEPT !.accepts = r.accepts]
<1>0. r.rows \in Nat /\ r.accepts \in Nat /\ r.letGo \in BOOLEAN /\ p \in Phases
  BY DEF CallRecords, Outcomes, Phases
<1>1. a \in CallRecords
  BY <1>0, FreshTyped, PhaseTyped
<1>2. b \in CallRecords
  <2> HIDE DEF a
  <2> QED
    BY <1>0, <1>1, RowsTyped
<1>3. d \in CallRecords
  <2> HIDE DEF b
  <2> QED
    BY <1>0, <1>2, AcceptsTyped
<1>4. Gone(r, p) \in CallRecords
  <2> HIDE DEF d
  <2>1. [d EXCEPT !.letGo = r.letGo] \in CallRecords
    BY <1>0, <1>3, FlagsTyped
  <2> QED
    BY <2>1 DEF d, Gone
<1> QED
  BY <1>4 DEF Gone, Fresh

LEMMA GoneSound ==
  ASSUME NEW r, r \in CallRecords, NEW p \in Outcomes, r.rows <= 1, r.accepts <= 1,
         r.accepts > 0 /\ ~r.letGo => r.rows = 1
  PROVE  CallSound(Gone(r, p))
<1> DEFINE n == Gone(r, p)
<1>1. /\ n \in CallRecords /\ n.phase = p /\ n.rows = r.rows /\ n.accepts = r.accepts
      /\ n.letGo = r.letGo /\ n.tries = 0
  BY GoneFields
<1> HIDE DEF n
<1>2. CallSound(n)
  BY <1>1, CallConstants DEF CallSound, Waiting, Unsent, Reading, Live, Outcomes
<1> QED
  BY <1>2 DEF n

LEMMA MovedSound ==
  ASSUME NEW r, CallSound(r), NEW p \in Phases, p # "queue",
         p \in Waiting => r.tries < Limit(r),
         p \in Unsent \cup {"open"} => r.accepts = 0,
         p = "open" => ~r.accepted,
         p \in Reading => r.accepts = 1 /\ r.accepted,
         r.phase \in Live, p \in Live
  PROVE  CallSound([r EXCEPT !.phase = p])
<1> DEFINE n == [r EXCEPT !.phase = p]
<1>1. n \in CallRecords
  BY PhaseTyped DEF CallSound
<1>2. /\ n.phase = p /\ n.route = r.route /\ n.fallback = r.fallback /\ n.tries = r.tries
      /\ n.once = r.once /\ n.accepted = r.accepted /\ n.rows = r.rows
      /\ n.accepts = r.accepts /\ n.letGo = r.letGo
  BY PhaseOnly DEF CallSound
<1> HIDE DEF n
<1>3. Limit(n) = Limit(r)
  BY <1>2 DEF Limit
<1>4. r.phase \notin Outcomes /\ p \notin Outcomes \cup {"record"}
  BY DEF Live, Unsent, Reading, Outcomes
<1>5. CallSound(n)
  BY <1>1, <1>2, <1>3, <1>4 DEF CallSound
<1> QED
  BY <1>5 DEF n

LEMMA ReservedSound ==
  ASSUME NEW r, CallSound(r), r.phase = "reserve"
  PROVE  CallSound([r EXCEPT !.phase = IF r.route = "anthropic" THEN "queue" ELSE "open",
                             !.tries = @ + 1, !.accepted = FALSE])
<1> DEFINE p == IF r.route = "anthropic" THEN "queue" ELSE "open"
           a == [r EXCEPT !.phase = p]
           b == [a EXCEPT !.tries = @ + 1]
           n == [r EXCEPT !.phase = IF r.route = "anthropic" THEN "queue" ELSE "open",
                          !.tries = @ + 1, !.accepted = FALSE]
<1>1. a \in CallRecords /\ a.tries = r.tries
  <2>1. p \in Phases
    BY DEF Phases
  <2> QED
    BY <2>1, PhaseTyped, PhaseOnly DEF CallSound
<1>2. b \in CallRecords
  <2>1. a.tries \in Nat
    BY <1>1 DEF CallSound, CallRecords
  <2> HIDE DEF a
  <2>2. a.tries + 1 \in Nat
    BY <2>1
  <2> QED
    BY <1>1, <2>2, TriesTyped
<1>3. n \in CallRecords
  <2> HIDE DEF b
  <2>1. [b EXCEPT !.accepted = FALSE] \in CallRecords
    BY <1>2, FlagsTyped
  <2> QED
    BY <2>1 DEF b
<1>4. /\ n.phase = p /\ n.rows = r.rows /\ n.accepts = r.accepts /\ n.letGo = r.letGo
      /\ n.tries = r.tries + 1 /\ ~n.accepted /\ n.route = r.route
  BY DEF CallSound, CallRecords
<1>5. /\ r.accepts = 0 /\ r.rows = 0 /\ ~r.letGo /\ r.tries < Limit(r) /\ r.tries \in Nat
      /\ Limit(r) \in Nat /\ Limit(r) <= MaxRetries
  BY CallConstants
  DEF CallSound, CallRecords, Limit, Waiting, Unsent, Reading, Live, Outcomes
<1>6. (p = "queue" /\ r.route = "anthropic") \/ p = "open"
  OBVIOUS
<1> HIDE DEF n, p
<1>7. CallSound(n)
  BY <1>3, <1>4, <1>5, <1>6, CallConstants
  DEF CallSound, Waiting, Unsent, Reading, Live, Outcomes
<1> QED
  BY <1>7 DEF n

LEMMA AcceptedSound ==
  ASSUME NEW r, CallSound(r), r.phase = "open"
  PROVE  CallSound([r EXCEPT !.phase = "stream", !.accepted = TRUE, !.accepts = @ + 1])
<1> DEFINE a == [r EXCEPT !.phase = "stream"]
           b == [a EXCEPT !.accepted = TRUE]
           n == [r EXCEPT !.phase = "stream", !.accepted = TRUE, !.accepts = @ + 1]
<1>1. a \in CallRecords /\ a.accepts = r.accepts
  <2>1. "stream" \in Phases
    BY DEF Phases
  <2> QED
    BY <2>1, PhaseTyped, PhaseOnly DEF CallSound
<1>2. b \in CallRecords /\ b.accepts = r.accepts
  <2> HIDE DEF a
  <2>1. b \in CallRecords
    BY <1>1, FlagsTyped
  <2>2. b.accepts = a.accepts
    BY <1>1 DEF CallRecords
  <2> QED
    BY <1>1, <2>1, <2>2
<1>3. r.accepts = 0 /\ r.rows = 0 /\ ~r.letGo /\ r.tries <= MaxRetries
  BY DEF CallSound, Unsent, Live, Outcomes
<1>4. n \in CallRecords
  <2>1. b.accepts + 1 \in Nat
    BY <1>2, <1>3
  <2> HIDE DEF b
  <2>2. [b EXCEPT !.accepts = @ + 1] \in CallRecords
    BY <1>2, <2>1, AcceptsTyped
  <2> QED
    BY <2>2 DEF b
<1>5. /\ n.phase = "stream" /\ n.rows = r.rows /\ n.accepts = r.accepts + 1
      /\ n.letGo = r.letGo /\ n.tries = r.tries /\ n.accepted
  BY DEF CallSound, CallRecords
<1> HIDE DEF n
<1>6. CallSound(n)
  BY <1>3, <1>4, <1>5 DEF CallSound, Waiting, Unsent, Reading, Live, Outcomes
<1> QED
  BY <1>6 DEF n

LEMMA FallenBackSound ==
  ASSUME NEW r, CallSound(r), r.phase = "open"
  PROVE  CallSound([r EXCEPT !.phase = "switch", !.route = "openai", !.fallback = TRUE,
                             !.tries = 0])
<1> DEFINE a == [r EXCEPT !.phase = "switch"]
           b == [a EXCEPT !.route = "openai"]
           d == [b EXCEPT !.fallback = TRUE]
           n == [r EXCEPT !.phase = "switch", !.route = "openai", !.fallback = TRUE,
                          !.tries = 0]
<1>1. a \in CallRecords
  <2>1. "switch" \in Phases
    BY DEF Phases
  <2> QED
    BY <2>1, PhaseTyped DEF CallSound
<1>2. b \in CallRecords
  <2>1. "openai" \in Routes
    BY DEF Routes
  <2> HIDE DEF a
  <2> QED
    BY <1>1, <2>1, RouteTyped
<1>3. d \in CallRecords
  <2> HIDE DEF b
  <2> QED
    BY <1>2, FlagsTyped
<1>4. n \in CallRecords
  <2> HIDE DEF d
  <2>1. [d EXCEPT !.tries = 0] \in CallRecords
    BY <1>3, TriesTyped
  <2> QED
    BY <2>1 DEF d
<1>5. /\ n.phase = "switch" /\ n.rows = r.rows /\ n.accepts = r.accepts
      /\ n.letGo = r.letGo /\ n.tries = 0 /\ n.route = "openai"
  BY DEF CallSound, CallRecords
<1>6. r.accepts = 0 /\ r.rows = 0 /\ ~r.letGo
  BY DEF CallSound, Unsent, Live, Outcomes
<1> HIDE DEF n
<1>7. Limit(n) = 1
  BY <1>5 DEF Limit
<1>8. CallSound(n)
  BY <1>4, <1>5, <1>6, <1>7, CallConstants
  DEF CallSound, Waiting, Unsent, Reading, Live, Outcomes
<1> QED
  BY <1>8 DEF n

LEMMA LetGoSound ==
  ASSUME NEW r, CallSound(r), NEW p \in Outcomes
  PROVE  CallSound(Gone([r EXCEPT !.letGo = TRUE], p))
<1> DEFINE n == [r EXCEPT !.letGo = TRUE]
<1>1. n \in CallRecords
  BY FlagsTyped DEF CallSound
<1>2. n.letGo /\ n.rows = r.rows /\ n.accepts = r.accepts
  BY DEF CallSound, CallRecords
<1> HIDE DEF n
<1>3. CallSound(Gone(n, p))
  BY <1>1, <1>2, GoneSound DEF CallSound
<1> QED
  BY <1>3 DEF n

LEMMA OutcomeSound ==
  ASSUME NEW r, CallSound(r), r.phase = "record", NEW o \in Outcomes
  PROVE  CallSound([r EXCEPT !.outcome = o])
<1> DEFINE n == [r EXCEPT !.outcome = o]
<1>1. n \in CallRecords
  BY OutcomeTyped DEF CallSound
<1>2. /\ n.phase = r.phase /\ n.rows = r.rows /\ n.accepts = r.accepts
      /\ n.letGo = r.letGo /\ n.tries = r.tries
  BY DEF CallSound, CallRecords
<1> HIDE DEF n
<1>3. CallSound(n)
  BY <1>1, <1>2 DEF CallSound, Waiting, Unsent, Reading, Live, Outcomes
<1> QED
  BY <1>3 DEF n
(***************************************************************************)
(* What an explanation has emitted, holds back, is sending and has sent.   *)
(***************************************************************************)
Blocks == Nat \cup {None}

Replies ==
  [emitted : Seq(Nat), pending : Blocks, sent : SUBSET Nat, required : BOOLEAN,
   told : BOOLEAN, sending : Blocks, late : BOOLEAN, state : {"open", "dropped", "finished"}]

Held(r) == {r.pending} \ {None}
OnTheWire(r) == IF r.sending = None THEN {} ELSE {r.sending, r.emitted[Len(r.emitted)]}

\* Every emitted block was sent, is held back or is being sent; an answer that owes the
\* sentence holds one back, and the one it sends first is the one it held.
ReplySound(r) ==
  /\ r \in Replies
  /\ r.sending \in Range(r.emitted) \cup {None} /\ r.pending \in Range(r.emitted) \cup {None}
  /\ r.sent \subseteq Range(r.emitted)
  /\ ~r.required => r.pending = None
  /\ r.required /\ r.emitted # <<>> /\ r.state = "open" => r.pending # None
  /\ r.required /\ r.sending # None => r.pending = r.sending
  /\ ~r.required /\ r.sending # None => r.sending = r.emitted[Len(r.emitted)]
  /\ r.state = "open" /\ ~r.late => Range(r.emitted) = r.sent \cup Held(r) \cup OnTheWire(r)
  /\ r.state = "finished" =>
       /\ r.required => r.told
       /\ ~r.late => r.sent = Range(r.emitted)

\* A send is under way only while the generator waits for its caller, and an answer is
\* interrupted or finished only when its call is recorded or over.
Paired(r, phase) ==
  /\ r.sending # None => phase = "yielded"
  /\ phase \in Live => r.state = "open" /\ ~r.late
  /\ r.state = "finished" => phase \in Outcomes

LEMMA AppendRange ==
  ASSUME NEW s \in Seq(Nat), NEW b \in Nat
  PROVE  /\ Append(s, b) \in Seq(Nat) /\ Append(s, b) # <<>>
         /\ Range(Append(s, b)) = Range(s) \cup {b}
         /\ Append(s, b)[Len(Append(s, b))] = b
<1>1. Range(Append(s, b)) = Range(s) \cup {b}
  <2>1. /\ DOMAIN Append(s, b) = DOMAIN s \cup {Len(s) + 1} /\ Append(s, b)[Len(s) + 1] = b
        /\ \A i \in DOMAIN s : Append(s, b)[i] = s[i]
    OBVIOUS
  <2> QED
    BY <2>1 DEF Range
<1>2. Append(s, b) \in Seq(Nat) /\ Len(Append(s, b)) = Len(s) + 1 /\ Len(s) \in Nat
  OBVIOUS
<1>3. Append(s, b)[Len(s) + 1] = b
  OBVIOUS
<1>4. Append(s, b) # <<>>
  BY <1>2
<1> QED
  BY <1>1, <1>2, <1>3, <1>4

LEMMA LastInRange ==
  ASSUME NEW s \in Seq(Nat), s # <<>>
  PROVE  s[Len(s)] \in Range(s) /\ s[Len(s)] \in Nat
<1>1. Len(s) \in DOMAIN s
  OBVIOUS
<1> QED
  BY <1>1 DEF Range

LEMMA EmptyRange == Range(<<>>) = {}
BY DEF Range

LEMMA NoneIsNoBlock == None \notin Nat /\ None \in Blocks
BY DEF None, Blocks

LEMMA NoReplyTyped == NoReply \in Replies
<1>1. <<>> \in Seq(Nat) /\ {} \in SUBSET Nat
  OBVIOUS
<1> QED
  BY <1>1, NoneIsNoBlock DEF NoReply, Replies

LEMMA NoReplySound ==
  ASSUME NEW required \in BOOLEAN
  PROVE  LET n == [NoReply EXCEPT !.required = required] IN
         ReplySound(n) /\ n.sending = None /\ n.state = "open" /\ ~n.late
<1> DEFINE n == [NoReply EXCEPT !.required = required]
<1>1. /\ n.sending = None /\ n.state = "open" /\ ~n.late /\ n.emitted = <<>> /\ n.sent = {}
      /\ n.pending = None
  BY DEF NoReply
<1>2. n \in Replies
  <2>1. NoReply \in Replies
    BY NoReplyTyped
  <2> QED
    BY <2>1 DEF Replies
<1> HIDE DEF n
<1>3. ReplySound(n)
  BY <1>1, <1>2, EmptyRange DEF ReplySound, Held, OnTheWire
<1> QED
  BY <1>1, <1>3 DEF n

LEMMA FirstReplySound == ReplySound(NoReply) /\ NoReply.sending = None /\ NoReply.state = "open" /\ ~NoReply.late
<1>1. /\ NoReply.sending = None /\ NoReply.state = "open" /\ ~NoReply.late
      /\ NoReply.emitted = <<>> /\ NoReply.sent = {} /\ NoReply.pending = None
  BY DEF NoReply
<1>2. NoReply \in Replies
  BY NoReplyTyped
<1> QED
  BY <1>1, <1>2, EmptyRange DEF ReplySound, Held, OnTheWire

\* A field of an answer is assigned.
LEMMA EmittedTyped ==
  ASSUME NEW r \in Replies, NEW s \in Seq(Nat) PROVE [r EXCEPT !.emitted = s] \in Replies
BY DEF Replies

LEMMA BlocksTyped ==
  ASSUME NEW r \in Replies, NEW b \in Blocks
  PROVE  [r EXCEPT !.pending = b] \in Replies /\ [r EXCEPT !.sending = b] \in Replies
BY DEF Replies

LEMMA PendingFields ==
  ASSUME NEW r \in Replies, NEW b \in Blocks
  PROVE  LET n == [r EXCEPT !.pending = b] IN
         /\ n.emitted = r.emitted /\ n.sending = r.sending /\ n.pending = b /\ n.sent = r.sent
         /\ n.required = r.required /\ n.late = r.late /\ n.state = r.state /\ n.told = r.told
BY DEF Replies

LEMMA SendingFields ==
  ASSUME NEW r \in Replies, NEW b \in Blocks
  PROVE  LET n == [r EXCEPT !.sending = b] IN
         /\ n.emitted = r.emitted /\ n.sending = b /\ n.pending = r.pending /\ n.sent = r.sent
         /\ n.required = r.required /\ n.late = r.late /\ n.state = r.state /\ n.told = r.told
BY DEF Replies

LEMMA SentTyped ==
  ASSUME NEW r \in Replies, NEW s \in SUBSET Nat PROVE [r EXCEPT !.sent = s] \in Replies
BY DEF Replies

LEMMA MarksTyped ==
  ASSUME NEW r \in Replies, NEW b \in BOOLEAN
  PROVE  [r EXCEPT !.told = b] \in Replies /\ [r EXCEPT !.late = b] \in Replies
BY DEF Replies

LEMMA StateTyped ==
  ASSUME NEW r \in Replies, NEW s \in {"open", "dropped", "finished"}
  PROVE  [r EXCEPT !.state = s] \in Replies
BY DEF Replies
\* The helpers of the explanation keep its answer sound.
LEMMA ParsedSound ==
  ASSUME NEW r, ReplySound(r), r.state = "open", r.sending = None, NEW b \in Nat
  PROVE  LET n == Parsed(r, b) IN
         /\ ReplySound(n) /\ n.state = "open" /\ n.late = r.late /\ n.emitted # <<>>
<1> DEFINE kept == [r EXCEPT !.emitted = Append(@, b)]
           n == Parsed(r, b)
<1>1. /\ Append(r.emitted, b) \in Seq(Nat) /\ Append(r.emitted, b) # <<>>
      /\ Range(Append(r.emitted, b)) = Range(r.emitted) \cup {b}
      /\ Append(r.emitted, b)[Len(Append(r.emitted, b))] = b
  <2>1. r.emitted \in Seq(Nat)
    BY DEF ReplySound, Replies
  <2> QED
    BY <2>1, AppendRange
<1>2. /\ kept \in Replies /\ kept.emitted = Append(r.emitted, b) /\ kept.sending = None
      /\ kept.pending = r.pending /\ kept.sent = r.sent /\ kept.required = r.required
      /\ kept.late = r.late /\ kept.state = "open"
  <2>1. kept \in Replies
    BY <1>1, EmittedTyped DEF ReplySound
  <2>2. /\ kept.emitted = Append(r.emitted, b) /\ kept.sending = None
        /\ kept.pending = r.pending /\ kept.sent = r.sent /\ kept.required = r.required
        /\ kept.late = r.late /\ kept.state = "open"
    BY DEF ReplySound, Replies
  <2> QED
    BY <2>1, <2>2
<1>3. b \in Blocks /\ b # None /\ r.pending \in Blocks
  BY NoneIsNoBlock DEF Blocks, ReplySound, Replies
<1> HIDE DEF kept
<1>4. CASE ~r.required
  <2>1. n = [kept EXCEPT !.sending = b]
    BY <1>4 DEF Parsed, kept
  <2>2. /\ n \in Replies /\ n.emitted = kept.emitted /\ n.sending = b
        /\ n.pending = kept.pending /\ n.sent = kept.sent /\ n.required = kept.required
        /\ n.late = kept.late /\ n.state = kept.state
    <3> HIDE DEF n
    <3>1. n \in Replies
      BY <1>2, <1>3, <2>1, BlocksTyped
    <3> QED
      BY <1>2, <1>3, <2>1, <3>1, SendingFields
  <2> HIDE DEF n
  <2>3. ReplySound(n)
    BY <1>1, <1>2, <1>3, <1>4, <2>2 DEF ReplySound, Held, OnTheWire
  <2> QED
    BY <1>1, <1>2, <2>2, <2>3 DEF n
<1>5. CASE r.required /\ r.pending = None
  <2>1. n = [kept EXCEPT !.pending = b]
    BY <1>5 DEF Parsed, kept
  <2>2. /\ n \in Replies /\ n.emitted = kept.emitted /\ n.sending = None
        /\ n.pending = b /\ n.sent = kept.sent /\ n.required = kept.required
        /\ n.late = kept.late /\ n.state = kept.state
    <3> HIDE DEF n
    <3>1. n \in Replies
      BY <1>2, <1>3, <2>1, BlocksTyped
    <3> QED
      BY <1>2, <1>3, <2>1, <3>1, NoneIsNoBlock, PendingFields
  <2>3. r.emitted = <<>>
    BY <1>5 DEF ReplySound
  <2> HIDE DEF n
  <2>4. ReplySound(n)
    BY <1>1, <1>2, <1>3, <1>5, <2>2, <2>3, EmptyRange DEF ReplySound, Held, OnTheWire
  <2> QED
    BY <1>1, <1>2, <2>2, <2>4 DEF n
<1>6. CASE r.required /\ r.pending # None
  <2>1. n = [kept EXCEPT !.sending = r.pending]
    BY <1>6 DEF Parsed, kept
  <2>2. /\ n \in Replies /\ n.emitted = kept.emitted /\ n.sending = r.pending
        /\ n.pending = kept.pending /\ n.sent = kept.sent /\ n.required = kept.required
        /\ n.late = kept.late /\ n.state = kept.state
    <3> HIDE DEF n
    <3>1. n \in Replies
      BY <1>2, <1>3, <2>1, BlocksTyped
    <3> QED
      BY <1>2, <1>3, <2>1, <3>1, SendingFields
  <2> HIDE DEF n
  <2>3. ReplySound(n)
    BY <1>1, <1>2, <1>3, <1>6, <2>2 DEF ReplySound, Held, OnTheWire
  <2> QED
    BY <1>1, <1>2, <2>2, <2>3 DEF n
<1>7. r.required \in BOOLEAN
  BY DEF ReplySound, Replies
<1> QED
  BY <1>4, <1>5, <1>6, <1>7

LEMMA EmittedSound ==
  ASSUME NEW r, ReplySound(r), r.state = "open"
  PROVE  LET n == Emitted(r) IN
         /\ ReplySound(n) /\ n.state = "open" /\ n.late = r.late /\ n.sending = None
         /\ n.emitted = r.emitted
<1>1. CASE r.sending = None
  BY <1>1 DEF Emitted
<1>2. CASE r.sending # None
  <2> DEFINE last == r.emitted[Len(r.emitted)]
             a == [r EXCEPT !.sent = @ \cup {r.sending}]
             d == [a EXCEPT !.sending = None]
             held == IF r.required THEN last ELSE r.pending
             n == Emitted(r)
  <2>1. /\ r \in Replies /\ r.emitted \in Seq(Nat) /\ r.sending \in Nat /\ r.emitted # <<>>
        /\ r.sent \in SUBSET Nat /\ r.pending \in Blocks /\ r.required \in BOOLEAN
    BY <1>2, EmptyRange DEF ReplySound, Replies, Blocks
  <2>2. last \in Range(r.emitted) /\ last \in Nat /\ last # None
    BY <2>1, LastInRange, NoneIsNoBlock
  <2>3. a \in Replies
    BY <2>1, SentTyped
  <2>4. d \in Replies
    <3> HIDE DEF a
    <3> QED
      BY <2>3, BlocksTyped, NoneIsNoBlock
  <2>5. n = [d EXCEPT !.pending = held]
    BY <1>2 DEF Emitted
  <2>6. /\ d.sent = r.sent \cup {r.sending} /\ d.sending = None /\ d.emitted = r.emitted
        /\ d.required = r.required /\ d.late = r.late /\ d.state = "open" /\ d.told = r.told
    BY <2>1 DEF Replies
  <2>7. held \in Blocks
    BY <2>1, <2>2 DEF Blocks
  <2> HIDE DEF d
  <2>8. /\ n \in Replies /\ n.pending = held /\ n.sent = d.sent /\ n.sending = d.sending
        /\ n.emitted = d.emitted /\ n.required = d.required /\ n.late = d.late
        /\ n.state = d.state
    BY <2>4, <2>5, <2>7, BlocksTyped DEF Replies
  <2> HIDE DEF n
  <2>9. ReplySound(n)
    <3>1. CASE r.required
      BY <1>2, <2>1, <2>2, <2>6, <2>8, <3>1 DEF ReplySound, Held, OnTheWire
    <3>2. CASE ~r.required
      BY <1>2, <2>1, <2>2, <2>6, <2>8, <3>2 DEF ReplySound, Held, OnTheWire
    <3> QED
      BY <3>1, <3>2
  <2> QED
    BY <2>6, <2>8, <2>9 DEF n
<1> QED
  BY <1>1, <1>2

LEMMA InterruptedSound ==
  ASSUME NEW r, ReplySound(r), r.state # "finished", NEW q \in Interrupted(r),
         NEW late \in BOOLEAN
  PROVE  LET n == [q EXCEPT !.late = late, !.state = IF late THEN @ ELSE "dropped"] IN
         ReplySound(n) /\ n.sending = None /\ n.state # "finished"
<1> DEFINE n == [q EXCEPT !.late = late, !.state = IF late THEN @ ELSE "dropped"]
           a == [q EXCEPT !.late = late]
           s == IF late THEN q.state ELSE "dropped"
<1>1. /\ q \in Replies /\ q.sending = None /\ q.emitted = r.emitted /\ q.pending = r.pending
      /\ q.required = r.required /\ q.state = r.state /\ q.sent \subseteq Range(r.emitted)
  <2>1. CASE r.sending = None
    BY <2>1 DEF Interrupted, ReplySound
  <2>2. CASE r.sending # None
    <3> DEFINE cut == [r EXCEPT !.sending = None]
               out == [r EXCEPT !.sending = None, !.sent = @ \cup {r.sending}]
    <3>1. q = cut \/ q = out
      BY <2>2 DEF Interrupted
    <3>2. r \in Replies /\ r.sending \in Nat /\ r.sent \in SUBSET Nat
      BY <2>2 DEF ReplySound, Replies, Blocks
    <3>3. cut \in Replies /\ cut.sent = r.sent
      <4>1. cut \in Replies
        BY <3>2, BlocksTyped, NoneIsNoBlock
      <4>2. cut.sent = r.sent
        BY <3>2 DEF Replies
      <4> QED
        BY <4>1, <4>2
    <3>4. out \in Replies
      <4>1. out = [cut EXCEPT !.sent = r.sent \cup {r.sending}]
        BY <3>2 DEF Replies
      <4>2. r.sent \cup {r.sending} \in SUBSET Nat
        BY <3>2
      <4> HIDE DEF cut
      <4>3. [cut EXCEPT !.sent = r.sent \cup {r.sending}] \in Replies
        BY <3>3, <4>2, SentTyped
      <4> QED
        BY <4>1, <4>3
    <3>5. CASE q = cut
      <4>1. /\ cut.sending = None /\ cut.emitted = r.emitted /\ cut.pending = r.pending
            /\ cut.required = r.required /\ cut.state = r.state
        BY <3>2 DEF Replies
      <4> QED
        BY <3>3, <3>5, <4>1 DEF ReplySound
    <3>6. CASE q = out
      <4>1. /\ out.sending = None /\ out.emitted = r.emitted /\ out.pending = r.pending
            /\ out.required = r.required /\ out.state = r.state
            /\ out.sent = r.sent \cup {r.sending}
        BY <3>2 DEF Replies
      <4> QED
        BY <2>2, <3>4, <3>6, <4>1 DEF ReplySound
    <3> QED
      BY <3>1, <3>5, <3>6
  <2> QED
    BY <2>1, <2>2
<1>2. a \in Replies /\ a.state = q.state
  <2>1. a \in Replies
    BY <1>1, MarksTyped
  <2>2. a.state = q.state
    BY <1>1 DEF Replies
  <2> QED
    BY <2>1, <2>2
<1>3. n \in Replies
  <2>1. n = [a EXCEPT !.state = s]
    BY <1>1 DEF Replies
  <2>2. s \in {"open", "dropped", "finished"}
    BY <1>1 DEF Replies
  <2> HIDE DEF a, s
  <2>3. [a EXCEPT !.state = s] \in Replies
    BY <1>2, <2>2, StateTyped
  <2> QED
    BY <2>1, <2>3
<1>4. /\ n.sending = None /\ n.emitted = r.emitted /\ n.pending = r.pending
      /\ n.required = r.required /\ n.sent = q.sent /\ n.late = late
      /\ n.state = IF late THEN r.state ELSE "dropped"
  BY <1>1 DEF Replies
<1> HIDE DEF n
<1>5. ReplySound(n)
  BY <1>1, <1>3, <1>4 DEF ReplySound, Held, OnTheWire
<1> QED
  BY <1>4, <1>5 DEF n
\* What an answer is finished to.
Finished(r) ==
  LET read == IF r.emitted = <<>> THEN Emitted(Parsed(r, 0)) ELSE r
  IN  IF read.pending = None THEN [read EXCEPT !.state = "finished"]
      ELSE [read EXCEPT !.state = "finished", !.told = TRUE, !.pending = None,
                        !.sent = @ \cup {read.pending}]

LEMMA FinishedSound ==
  ASSUME NEW r, ReplySound(r), r.state = "open", r.sending = None
  PROVE  ReplySound(Finished(r)) /\ Finished(r).sending = None /\ Finished(r).late = r.late
<1> DEFINE read == IF r.emitted = <<>> THEN Emitted(Parsed(r, 0)) ELSE r
<1>1. /\ ReplySound(read) /\ read.state = "open" /\ read.sending = None
      /\ read.late = r.late /\ read.emitted # <<>>
  <2>1. CASE r.emitted = <<>>
    <3> DEFINE p == Parsed(r, 0)
    <3>1. ReplySound(p) /\ p.state = "open" /\ p.late = r.late /\ p.emitted # <<>>
      BY ParsedSound
    <3> HIDE DEF p
    <3>2. /\ ReplySound(Emitted(p)) /\ Emitted(p).state = "open" /\ Emitted(p).late = p.late
          /\ Emitted(p).sending = None /\ Emitted(p).emitted = p.emitted
      BY <3>1, EmittedSound
    <3> QED
      BY <2>1, <3>1, <3>2 DEF p
  <2>2. CASE r.emitted # <<>>
    BY <2>2
  <2> QED
    BY <2>1, <2>2
<1>2. Finished(r) = IF read.pending = None THEN [read EXCEPT !.state = "finished"]
                    ELSE [read EXCEPT !.state = "finished", !.told = TRUE, !.pending = None,
                                      !.sent = @ \cup {read.pending}]
  BY DEF Finished
<1> HIDE DEF read
<1> DEFINE n == Finished(r)
<1>3. read \in Replies /\ read.sent \in SUBSET Nat /\ read.pending \in Blocks
  BY <1>1 DEF ReplySound, Replies
<1>4. CASE read.pending = None
  <2>1. n = [read EXCEPT !.state = "finished"]
    BY <1>2, <1>4
  <2>2. n \in Replies
    BY <1>3, <2>1, StateTyped
  <2>3. /\ n.state = "finished" /\ n.sending = None /\ n.late = r.late
        /\ n.emitted = read.emitted /\ n.pending = None /\ n.sent = read.sent
        /\ n.required = read.required
    BY <1>1, <1>3, <1>4, <2>1 DEF Replies
  <2> HIDE DEF n
  <2>4. ReplySound(n)
    BY <1>1, <1>4, <2>2, <2>3 DEF ReplySound, Held, OnTheWire
  <2> QED
    BY <2>3, <2>4 DEF n
<1>5. CASE read.pending # None
  <2> DEFINE a == [read EXCEPT !.state = "finished"]
             b == [a EXCEPT !.told = TRUE]
             d == [b EXCEPT !.pending = None]
             told == read.sent \cup {read.pending}
  <2>1. n = [read EXCEPT !.state = "finished", !.told = TRUE, !.pending = None,
                         !.sent = @ \cup {read.pending}]
    BY <1>2, <1>5
  <2>2. told \in SUBSET Nat
    BY <1>3, <1>5 DEF Blocks
  <2>3. a \in Replies
    BY <1>3, StateTyped
  <2>4. b \in Replies
    <3> HIDE DEF a
    <3> QED
      BY <2>3, MarksTyped
  <2>5. d \in Replies
    <3> HIDE DEF b
    <3> QED
      BY <2>4, BlocksTyped, NoneIsNoBlock
  <2>6. n \in Replies
    <3>1. n = [d EXCEPT !.sent = told]
      BY <1>3, <2>1 DEF Replies
    <3> HIDE DEF d, n, told
    <3> QED
      BY <2>2, <2>5, <3>1, SentTyped
  <2>7. /\ n.state = "finished" /\ n.sending = None /\ n.late = r.late /\ n.told
        /\ n.emitted = read.emitted /\ n.pending = None /\ n.sent = told
        /\ n.required = read.required
    BY <1>1, <1>3, <2>1 DEF Replies
  <2> HIDE DEF n
  <2>8. read.required \in BOOLEAN
    BY <1>3 DEF Replies
  <2>9. ReplySound(n)
    BY <1>1, <1>5, <2>6, <2>7, <2>8 DEF ReplySound, Held, OnTheWire
  <2> QED
    BY <2>7, <2>9 DEF n
<1> QED
  BY <1>4, <1>5

(***************************************************************************)
(* The counters: a reservation is made before a request is sent, and a     *)
(* permit is out for every attempt that holds one.                         *)
(***************************************************************************)
Queued == {c \in Calls : call[c].phase = "queue"}
Holders == {c \in Calls : HoldsPermit(c)}
Holding(r) == r.route = "anthropic" /\ r.phase \in {"open", "stream", "yielded"}

QuotaInv ==
  /\ taken \in Nat /\ requests \in Nat /\ taken <= Quota
  /\ IsFiniteSet(Queued) /\ requests + Cardinality(Queued) <= taken

PermitInv ==
  permits \in Nat /\ IsFiniteSet(Holders) /\ permits + Cardinality(Holders) = Permits

LocalsInv == call \in [Calls -> CallRecords] /\ \A c \in Calls : CallSound(call[c])

RepliesInv ==
  /\ reply \in [Explanations -> Replies]
  /\ \A c \in Explanations : ReplySound(reply[c]) /\ Paired(reply[c], call[c].phase)

CallsInv ==
  /\ LocalsInv /\ QuotaInv /\ PermitInv /\ RepliesInv
  /\ orphans \in Nat /\ restarts \in 0 .. MaxRestarts

\* One element joins or leaves a set that is counted.
LEMMA CountOne ==
  ASSUME NEW S, IsFiniteSet(S), NEW T, NEW x, T \in {S \cup {x}, S \ {x}}
  PROVE  /\ IsFiniteSet(T) /\ Cardinality(S) \in Nat /\ Cardinality(T) \in Nat
         /\ x \in T /\ x \notin S => Cardinality(T) = Cardinality(S) + 1
         /\ x \notin T /\ x \in S => Cardinality(T) = Cardinality(S) - 1
         /\ (x \in T <=> x \in S) => Cardinality(T) = Cardinality(S)
<1>1. IsFiniteSet(S \cup {x}) /\ IsFiniteSet(S \ {x})
  BY FS_AddElement, FS_RemoveElement
<1>2. Cardinality(S) \in Nat /\ Cardinality(T) \in Nat
  BY <1>1, FS_CardinalityType
<1>3. Cardinality(S \cup {x}) = IF x \in S THEN Cardinality(S) ELSE Cardinality(S) + 1
  BY FS_AddElement
<1>4. Cardinality(S \ {x}) = IF x \in S THEN Cardinality(S) - 1 ELSE Cardinality(S)
  BY FS_RemoveElement
<1>5. CASE T = S \cup {x}
  BY <1>1, <1>2, <1>3, <1>5
<1>6. CASE T = S \ {x}
  BY <1>1, <1>2, <1>4, <1>6
<1> QED
  BY <1>5, <1>6

\* The locals of one call change: the others' are kept, and the counts follow.
LEMMA LocalsChange ==
  ASSUME LocalsInv, NEW c \in Calls, NEW r, CallSound(r), Set(c, r)
  PROVE  /\ LocalsInv' /\ call'[c] = r
         /\ \A d \in Calls \ {c} : call'[d] = call[d]
<1>1. r \in CallRecords
  BY DEF CallSound
<1>2. call' = [call EXCEPT ![c] = r] /\ call \in [Calls -> CallRecords]
  BY DEF Set, LocalsInv
<1>3. call' \in [Calls -> CallRecords]
  BY <1>1, <1>2
<1>4. call'[c] = r /\ \A d \in Calls \ {c} : call'[d] = call[d]
  BY <1>2
<1> QED
  BY <1>3, <1>4 DEF LocalsInv

LEMMA QueueChange ==
  ASSUME LocalsInv, QuotaInv, NEW c \in Calls, NEW r, CallSound(r), Set(c, r)
  PROVE  /\ IsFiniteSet(Queued') /\ Cardinality(Queued) \in Nat /\ Cardinality(Queued') \in Nat
         /\ r.phase = "queue" /\ call[c].phase # "queue" =>
              Cardinality(Queued') = Cardinality(Queued) + 1
         /\ r.phase # "queue" /\ call[c].phase = "queue" =>
              Cardinality(Queued') = Cardinality(Queued) - 1
         /\ (r.phase = "queue" <=> call[c].phase = "queue") =>
              Cardinality(Queued') = Cardinality(Queued)
<1>1. call'[c] = r /\ \A d \in Calls \ {c} : call'[d] = call[d]
  BY LocalsChange
<1>2. Queued' \in {Queued \cup {c}, Queued \ {c}}
  BY <1>1 DEF Queued
<1>3. (c \in Queued <=> call[c].phase = "queue") /\ (c \in Queued' <=> r.phase = "queue")
  BY <1>1 DEF Queued
<1>4. IsFiniteSet(Queued)
  BY DEF QuotaInv
<1> QED
  BY <1>2, <1>3, <1>4, CountOne

LEMMA HoldersChange ==
  ASSUME LocalsInv, PermitInv, NEW c \in Calls, NEW r, CallSound(r), Set(c, r)
  PROVE  /\ IsFiniteSet(Holders') /\ Cardinality(Holders) \in Nat
         /\ Cardinality(Holders') \in Nat
         /\ Holding(r) /\ ~Holding(call[c]) => Cardinality(Holders') = Cardinality(Holders) + 1
         /\ ~Holding(r) /\ Holding(call[c]) => Cardinality(Holders') = Cardinality(Holders) - 1
         /\ (Holding(r) <=> Holding(call[c])) => Cardinality(Holders') = Cardinality(Holders)
<1>1. call'[c] = r /\ \A d \in Calls \ {c} : call'[d] = call[d]
  BY LocalsChange
<1>2. /\ Holders = {d \in Calls : Holding(call[d])}
      /\ Holders' = {d \in Calls : Holding(call'[d])}
  BY DEF Holders, HoldsPermit, Holding
<1>3. Holders' \in {Holders \cup {c}, Holders \ {c}}
  BY <1>1, <1>2
<1>4. (c \in Holders <=> Holding(call[c])) /\ (c \in Holders' <=> Holding(r))
  BY <1>1, <1>2
<1>5. IsFiniteSet(Holders)
  BY DEF PermitInv
<1> QED
  BY <1>3, <1>4, <1>5, CountOne

\* Permits after a step that gives back what the attempt held, and after one that keeps it.
LEMMA PermitReturns ==
  ASSUME LocalsInv, PermitInv, NEW c \in Calls, NEW r, CallSound(r), Set(c, r), ~Holding(r),
         permits' = Released(c)
  PROVE  PermitInv'
<1>1. Holding(call[c]) <=> HoldsPermit(c)
  BY DEF Holding, HoldsPermit
<1>2. permits' = IF Holding(call[c]) THEN permits + 1 ELSE permits
  BY <1>1 DEF Released
<1> QED
  BY <1>2, HoldersChange DEF PermitInv

LEMMA PermitStays ==
  ASSUME LocalsInv, PermitInv, NEW c \in Calls, NEW r, CallSound(r), Set(c, r),
         Holding(r) <=> Holding(call[c]), permits' = permits
  PROVE  PermitInv'
BY HoldersChange DEF PermitInv

\* The quota after a step that sends nothing and does not join the queue.
LEMMA QuotaStays ==
  ASSUME LocalsInv, QuotaInv, NEW c \in Calls, NEW r, CallSound(r), Set(c, r),
         r.phase # "queue", UNCHANGED <<taken, requests>>
  PROVE  QuotaInv'
BY QueueChange DEF QuotaInv

\* The answers after a step that leaves them alone, and after one that changes one.
LEMMA RepliesStay ==
  ASSUME LocalsInv, RepliesInv, NEW c \in Calls, NEW r, CallSound(r), Set(c, r),
         UNCHANGED reply, c \in Explanations => Paired(reply[c], r.phase)
  PROVE  RepliesInv'
<1>1. call'[c] = r /\ \A d \in Calls \ {c} : call'[d] = call[d]
  BY LocalsChange
<1> QED
  BY <1>1, CallConstants DEF RepliesInv

LEMMA ReplyChanges ==
  ASSUME LocalsInv, RepliesInv, NEW c \in Explanations, NEW q, ReplySound(q),
         NEW r, CallSound(r), Set(c, r), Paired(q, r.phase),
         reply' = [reply EXCEPT ![c] = q]
  PROVE  RepliesInv'
<1>1. c \in Calls
  BY CallConstants
<1>2. call'[c] = r /\ \A d \in Calls \ {c} : call'[d] = call[d]
  BY <1>1, LocalsChange
<1>3. q \in Replies /\ reply \in [Explanations -> Replies]
  BY DEF ReplySound, RepliesInv
<1>4. reply' \in [Explanations -> Replies]
  BY <1>3
<1>5. reply'[c] = q /\ \A d \in Explanations \ {c} : reply'[d] = reply[d]
  BY <1>3
<1> QED
  BY <1>2, <1>4, <1>5, CallConstants DEF RepliesInv
(***************************************************************************)
(* The steps.                                                              *)
(***************************************************************************)
LEMMA CallsInitEstablishes == CallsInit => CallsInv
<1> SUFFICES ASSUME CallsInit PROVE CallsInv
  OBVIOUS
<1>1. LocalsInv
  BY FreshTyped, FreshSound DEF CallsInit, LocalsInv
<1>2. Queued = {} /\ Holders = {}
  BY DEF CallsInit, Queued, Holders, HoldsPermit, Fresh
<1>3. QuotaInv /\ PermitInv
  BY <1>2, FS_EmptySet, CallConstants DEF CallsInit, QuotaInv, PermitInv
<1>4. RepliesInv
  <2>1. \A c \in Explanations : reply[c] = NoReply /\ call[c].phase = "idle"
    BY CallConstants DEF CallsInit, Fresh
  <2>2. reply \in [Explanations -> Replies]
    BY NoReplyTyped DEF CallsInit
  <2> QED
    BY <2>1, <2>2, FirstReplySound DEF RepliesInv, Paired
<1> QED
  BY <1>1, <1>3, <1>4, CallConstants DEF CallsInit, CallsInv

\* The locals of a call before a step.
LEMMA LocalsFacts ==
  ASSUME LocalsInv, NEW c \in Calls PROVE CallSound(call[c]) /\ call[c] \in CallRecords
BY DEF LocalsInv, CallSound

\* A step of a call that leaves the answers, the quota and the permits alone.
LEMMA MovedKeeps ==
  ASSUME CallsInv, NEW c \in Calls, NEW p \in Phases, Set(c, [call[c] EXCEPT !.phase = p]),
         CallSound([call[c] EXCEPT !.phase = p]), p # "queue",
         p \in {"open", "stream", "yielded"} <=>
           call[c].phase \in {"open", "stream", "yielded"},
         call[c].phase \in Live, call[c].phase # "yielded",
         UNCHANGED <<permits, taken, orphans, requests, restarts, reply>>
  PROVE  CallsInv'
<1> DEFINE r == [call[c] EXCEPT !.phase = p]
<1>1. r.phase = p /\ r.route = call[c].route /\ call[c] \in CallRecords
  BY PhaseOnly, LocalsFacts DEF CallsInv
<1> HIDE DEF r
<1>2. CallSound(r) /\ Set(c, r)
  BY DEF r
<1>3. Holding(r) <=> Holding(call[c])
  BY <1>1 DEF Holding
<1>4. c \in Explanations => Paired(reply[c], p)
  BY DEF CallsInv, RepliesInv, Paired
<1> QED
  BY <1>1, <1>2, <1>3, <1>4, LocalsChange, QuotaStays, PermitStays, RepliesStay DEF CallsInv

LEMMA BeginKeeps == ASSUME CallsInv, NEW c \in Calls, Begin(c) PROVE CallsInv'
<1>1. PICK route \in Routes, once \in BOOLEAN, mayFall \in BOOLEAN, required \in BOOLEAN :
        /\ Set(c, [Fresh EXCEPT !.phase = "reserve", !.route = route, !.once = once,
                                !.mayFall = mayFall])
        /\ IF c \in Explanations
             THEN reply' = [reply EXCEPT ![c] = [NoReply EXCEPT !.required = required]]
             ELSE required /\ UNCHANGED reply
  BY DEF Begin
<1> DEFINE r == [Fresh EXCEPT !.phase = "reserve", !.route = route, !.once = once,
                              !.mayFall = mayFall]
           q == [NoReply EXCEPT !.required = required]
<1>2. CallSound(r)
  BY BegunSound
<1>3. r.phase = "reserve"
  BY DEF Fresh
<1>4. ReplySound(q) /\ Paired(q, "reserve")
  BY NoReplySound DEF Paired, Outcomes
<1> HIDE DEF r, q
<1>5. /\ call[c].phase = "idle" /\ UNCHANGED <<permits, taken, orphans, requests, restarts>>
  BY DEF Begin
<1>6. Set(c, r) /\ ~Holding(r) /\ ~Holding(call[c])
  BY <1>1, <1>3, <1>5 DEF r, Holding
<1>7. LocalsInv' /\ QuotaInv' /\ PermitInv'
  BY <1>2, <1>3, <1>5, <1>6, LocalsChange, QuotaStays, PermitStays DEF CallsInv
<1>8. RepliesInv'
  <2>1. CASE c \in Explanations
    <3>1. reply' = [reply EXCEPT ![c] = q]
      BY <1>1, <2>1 DEF q
    <3> QED
      BY <1>2, <1>3, <1>4, <1>6, <2>1, <3>1, ReplyChanges DEF CallsInv
  <2>2. CASE c \notin Explanations
    BY <1>1, <1>2, <1>6, <2>2, RepliesStay DEF CallsInv
  <2> QED
    BY <2>1, <2>2
<1> QED
  BY <1>5, <1>7, <1>8 DEF CallsInv

LEMMA ReserveKeeps == ASSUME CallsInv, NEW c \in Calls, ReserveAttempt(c) PROVE CallsInv'
<1>1. CallSound(call[c]) /\ call[c] \in CallRecords /\ call[c].phase = "reserve"
  BY LocalsFacts DEF CallsInv, ReserveAttempt
<1>2. UNCHANGED <<permits, orphans, restarts, reply>>
  BY DEF ReserveAttempt
<1>3. c \in Explanations => \A p \in Phases : Paired(reply[c], "reserve") => Paired(reply[c], p)
  BY DEF Paired, Live, Unsent, Outcomes
<1>4. CASE QuotaLeft
  <2> DEFINE p == IF call[c].route = "anthropic" THEN "queue" ELSE "open"
             r == [call[c] EXCEPT
                     !.phase = IF call[c].route = "anthropic" THEN "queue" ELSE "open",
                     !.tries = @ + 1, !.accepted = FALSE]
  <2>1. CallSound(r)
    BY <1>1, ReservedSound
  <2>2. r.phase = p /\ r.route = call[c].route
    BY <1>1 DEF CallRecords
  <2> HIDE DEF r
  <2>3. /\ Set(c, r) /\ taken' = taken + 1
        /\ requests' = IF call[c].route = "anthropic" THEN requests ELSE requests + 1
    BY <1>4 DEF ReserveAttempt, r
  <2>4. ~Holding(r) /\ ~Holding(call[c])
    BY <1>1, <2>2 DEF Holding
  <2>5. LocalsInv' /\ PermitInv'
    BY <1>2, <2>1, <2>3, <2>4, LocalsChange, PermitStays DEF CallsInv
  <2>6. QuotaInv'
    <3>1. taken < Quota /\ taken \in Nat /\ requests \in Nat /\ Quota \in Nat
      BY <1>4, CallConstants DEF QuotaLeft, CallsInv, QuotaInv
    <3>2. CASE call[c].route = "anthropic"
      BY <1>1, <2>1, <2>2, <2>3, <3>1, <3>2, QueueChange DEF CallsInv, QuotaInv
    <3>3. CASE call[c].route # "anthropic"
      BY <1>1, <2>1, <2>2, <2>3, <3>1, <3>3, QueueChange DEF CallsInv, QuotaInv
    <3> QED
      BY <3>2, <3>3
  <2>7. RepliesInv'
    <3>1. c \in Explanations => Paired(reply[c], r.phase)
      BY <1>1, <2>2 DEF CallsInv, RepliesInv, Paired, Live, Unsent, Outcomes
    <3> QED
      BY <1>2, <2>1, <2>3, <3>1, RepliesStay DEF CallsInv
  <2> QED
    BY <1>2, <2>5, <2>6, <2>7 DEF CallsInv
<1>5. CASE ~QuotaLeft
  <2> DEFINE r == Gone(call[c], "failed")
  <2>1. CallSound(r) /\ r.phase = "failed"
    BY <1>1, GoneSound, GoneFields DEF CallSound, Unsent, Live, Outcomes
  <2> HIDE DEF r
  <2>2. Set(c, r) /\ UNCHANGED <<taken, requests>>
    BY <1>5 DEF ReserveAttempt, r
  <2>3. ~Holding(r) /\ ~Holding(call[c])
    BY <1>1, <2>1 DEF Holding
  <2>4. c \in Explanations => Paired(reply[c], r.phase)
    BY <1>1, <2>1 DEF CallsInv, RepliesInv, Paired, Live, Unsent, Outcomes
  <2>5. LocalsInv' /\ PermitInv' /\ QuotaInv' /\ RepliesInv'
    BY <1>2, <2>1, <2>2, <2>3, <2>4, LocalsChange, PermitStays, QuotaStays, RepliesStay
    DEF CallsInv
  <2> QED
    BY <1>2, <2>5 DEF CallsInv
<1> QED
  BY <1>4, <1>5

LEMMA AcquireKeeps == ASSUME CallsInv, NEW c \in Calls, Acquire(c) PROVE CallsInv'
<1> DEFINE r == [call[c] EXCEPT !.phase = "open"]
<1>1. CallSound(call[c]) /\ call[c] \in CallRecords /\ call[c].phase = "queue"
  BY LocalsFacts DEF CallsInv, Acquire
<1>2. r.phase = "open" /\ r.route = call[c].route /\ call[c].route = "anthropic"
  BY <1>1, PhaseOnly DEF CallSound, Phases
<1>3. CallSound(r)
  BY <1>1, MovedSound DEF CallSound, Phases, Waiting, Unsent, Reading, Live
<1> HIDE DEF r
<1>4. /\ Set(c, r) /\ permits > 0 /\ permits' = permits - 1 /\ requests' = requests + 1
      /\ UNCHANGED <<taken, orphans, restarts, reply>>
  BY DEF Acquire, r
<1>5. LocalsInv'
  BY <1>3, <1>4, LocalsChange DEF CallsInv
<1>6. QuotaInv'
  BY <1>1, <1>2, <1>3, <1>4, QueueChange DEF CallsInv, QuotaInv
<1>7. PermitInv'
  <2>1. Holding(r) /\ ~Holding(call[c])
    BY <1>1, <1>2 DEF Holding
  <2> QED
    BY <1>3, <1>4, <2>1, HoldersChange DEF CallsInv, PermitInv
<1>8. RepliesInv'
  <2>1. c \in Explanations => Paired(reply[c], r.phase)
    BY <1>1, <1>2 DEF CallsInv, RepliesInv, Paired, Live, Unsent, Outcomes
  <2> QED
    BY <1>3, <1>4, <2>1, RepliesStay DEF CallsInv
<1> QED
  BY <1>4, <1>5, <1>6, <1>7, <1>8 DEF CallsInv
LEMMA AcceptKeeps == ASSUME CallsInv, NEW c \in Calls, Accept(c) PROVE CallsInv'
<1> DEFINE r == [call[c] EXCEPT !.phase = "stream", !.accepted = TRUE, !.accepts = @ + 1]
<1>1. CallSound(call[c]) /\ call[c] \in CallRecords /\ call[c].phase = "open"
  BY LocalsFacts DEF CallsInv, Accept
<1>2. CallSound(r) /\ r.phase = "stream" /\ r.route = call[c].route
  <2>1. r.phase = "stream" /\ r.route = call[c].route
    BY <1>1 DEF CallRecords
  <2> QED
    BY <1>1, <2>1, AcceptedSound
<1> HIDE DEF r
<1>3. Set(c, r) /\ UNCHANGED <<permits, taken, orphans, requests, restarts, reply>>
  BY DEF Accept, r
<1>4. Holding(r) <=> Holding(call[c])
  BY <1>1, <1>2 DEF Holding
<1>5. c \in Explanations => Paired(reply[c], r.phase)
  BY <1>1, <1>2 DEF CallsInv, RepliesInv, Paired, Live, Reading, Outcomes
<1> QED
  BY <1>2, <1>3, <1>4, <1>5, LocalsChange, PermitStays, QuotaStays, RepliesStay DEF CallsInv

\* A step that writes the row, or ends the attempt without one, and releases the permit.
LEMMA EndedAttemptKeeps ==
  ASSUME CallsInv, NEW c \in Calls, NEW r, CallSound(r), Set(c, r), permits' = Released(c),
         r.phase \in {"record", "switch", "backoff"}, call[c].phase \in {"open", "stream"},
         UNCHANGED <<taken, orphans, requests, restarts, reply>>
  PROVE  CallsInv'
<1>1. ~Holding(r)
  BY DEF Holding
<1>2. c \in Explanations => Paired(reply[c], r.phase)
  BY DEF CallsInv, RepliesInv, Paired, Live, Unsent, Reading, Outcomes
<1> QED
  BY <1>1, <1>2, LocalsChange, PermitReturns, QuotaStays, RepliesStay DEF CallsInv

LEMMA StreamEndsKeeps == ASSUME CallsInv, NEW c \in Calls, StreamEnds(c) PROVE CallsInv'
<1> DEFINE r == [call[c] EXCEPT !.phase = "record", !.rows = @ + 1, !.outcome = "done"]
<1>1. /\ CallSound(call[c]) /\ call[c] \in CallRecords
      /\ call[c].phase \in {"open", "stream"} /\ call[c].phase \in Live
  BY LocalsFacts DEF CallsInv, StreamEnds, Live, Reading
<1>2. CallSound(r) /\ r.phase = "record"
  <2>1. r.phase = "record"
    BY <1>1 DEF CallRecords
  <2>2. "done" \in Outcomes
    BY DEF Outcomes
  <2> QED
    BY <1>1, <2>1, <2>2, RecordedSound
<1> HIDE DEF r
<1>3. /\ Set(c, r) /\ permits' = Released(c)
      /\ UNCHANGED <<taken, orphans, requests, restarts, reply>>
  BY DEF StreamEnds, r
<1> QED
  BY <1>1, <1>2, <1>3, EndedAttemptKeeps

LEMMA AttemptFailsKeeps == ASSUME CallsInv, NEW c \in Calls, AttemptFails(c) PROVE CallsInv'
<1>1. /\ CallSound(call[c]) /\ call[c] \in CallRecords
      /\ call[c].phase \in {"open", "stream"} /\ call[c].phase \in Live
  BY LocalsFacts DEF CallsInv, AttemptFails, Live, Reading
<1> DEFINE again == [call[c] EXCEPT !.phase = "backoff"]
           other == [call[c] EXCEPT !.phase = "switch", !.route = "openai",
                                    !.fallback = TRUE, !.tries = 0]
           ended == [call[c] EXCEPT !.phase = "record", !.rows = @ + 1, !.outcome = "failed"]
<1>2. PICK retryable \in BOOLEAN :
        Set(c, IF MayRetry(c, retryable) THEN again
               ELSE IF MayFallBack(c) THEN other ELSE ended)
  BY DEF AttemptFails
<1>3. permits' = Released(c) /\ UNCHANGED <<taken, orphans, requests, restarts, reply>>
  BY DEF AttemptFails
<1>4. MayRetry(c, retryable) \/ MayFallBack(c) => call[c].phase = "open" /\ call[c].accepts = 0
  BY <1>1 DEF MayRetry, MayFallBack, CallSound, Reading, Unsent
<1>5. CASE MayRetry(c, retryable)
  <2>1. call[c].tries < Limit(call[c])
    BY <1>5 DEF MayRetry, AttemptLimit, Limit
  <2>2. "backoff" \in Phases /\ "backoff" \in Live
    BY DEF Phases, Live, Unsent
  <2>3. CallSound(again) /\ again.phase = "backoff"
    <3>1. again.phase = "backoff"
      BY <1>1, <2>2, PhaseOnly
    <3>2. CallSound(again)
      BY <1>1, <1>4, <1>5, <2>1, <2>2, MovedSound DEF Reading
    <3> QED
      BY <3>1, <3>2
  <2> HIDE DEF again
  <2> QED
    BY <1>1, <1>2, <1>3, <1>5, <2>3, EndedAttemptKeeps
<1>6. CASE ~MayRetry(c, retryable) /\ MayFallBack(c)
  <2>1. CallSound(other) /\ other.phase = "switch"
    <3>1. other.phase = "switch"
      BY <1>1 DEF CallRecords
    <3> QED
      BY <1>1, <1>4, <1>6, <3>1, FallenBackSound
  <2> HIDE DEF other
  <2> QED
    BY <1>1, <1>2, <1>3, <1>6, <2>1, EndedAttemptKeeps
<1>7. CASE ~MayRetry(c, retryable) /\ ~MayFallBack(c)
  <2>1. CallSound(ended) /\ ended.phase = "record"
    <3>1. ended.phase = "record"
      BY <1>1 DEF CallRecords
    <3>2. "failed" \in Outcomes
      BY DEF Outcomes
    <3> QED
      BY <1>1, <3>1, <3>2, RecordedSound
  <2> HIDE DEF ended
  <2> QED
    BY <1>1, <1>2, <1>3, <1>7, <2>1, EndedAttemptKeeps
<1> QED
  BY <1>5, <1>6, <1>7

LEMMA WaitEndsKeeps ==
  ASSUME CallsInv, NEW c \in Calls, BackoffEnds(c) \/ Switched(c) PROVE CallsInv'
<1>1. /\ CallSound(call[c]) /\ call[c].phase \in {"backoff", "switch"}
      /\ Set(c, [call[c] EXCEPT !.phase = "reserve"])
      /\ UNCHANGED <<permits, taken, orphans, requests, restarts, reply>>
  BY LocalsFacts DEF CallsInv, BackoffEnds, Switched
<1>2. "reserve" \in Phases /\ "reserve" \in Live /\ call[c].phase \in Live
  BY <1>1 DEF Phases, Live, Unsent
<1>3. CallSound([call[c] EXCEPT !.phase = "reserve"])
  BY <1>1, <1>2, MovedSound DEF CallSound, Waiting, Unsent, Reading
<1> QED
  BY <1>1, <1>2, <1>3, MovedKeeps

LEMMA RowWrittenKeeps == ASSUME CallsInv, NEW c \in Calls, RowWritten(c) PROVE CallsInv'
<1> DEFINE r == Gone(call[c], call[c].outcome)
<1>1. /\ CallSound(call[c]) /\ call[c] \in CallRecords /\ call[c].phase = "record"
      /\ call[c].outcome \in Outcomes
  BY LocalsFacts DEF CallsInv, RowWritten, CallRecords
<1>2. CallSound(r) /\ r.phase \in Outcomes
  BY <1>1, GoneSound, GoneFields DEF CallSound
<1> HIDE DEF r
<1>3. Set(c, r) /\ UNCHANGED <<permits, taken, orphans, requests, restarts, reply>>
  BY DEF RowWritten, r
<1>4. ~Holding(r) /\ ~Holding(call[c]) /\ r.phase # "queue"
  BY <1>1, <1>2 DEF Holding, Outcomes
<1>5. c \in Explanations => Paired(reply[c], r.phase)
  BY <1>1, <1>2 DEF CallsInv, RepliesInv, Paired, Live, Unsent, Reading, Outcomes
<1> QED
  BY <1>2, <1>3, <1>4, <1>5, LocalsChange, PermitStays, QuotaStays, RepliesStay DEF CallsInv

LEMMA DeltaKeeps == ASSUME CallsInv, NEW c \in Calls, Delta(c) PROVE CallsInv'
<1> DEFINE r == [call[c] EXCEPT !.phase = "yielded"]
<1>1. CallSound(call[c]) /\ call[c] \in CallRecords /\ call[c].phase = "stream"
  BY LocalsFacts DEF CallsInv, Delta
<1>2. "yielded" \in Phases /\ "yielded" \in Live /\ call[c].phase \in Live
  BY <1>1 DEF Phases, Live, Reading
<1>3. r.phase = "yielded" /\ r.route = call[c].route
  BY <1>1, <1>2, PhaseOnly
<1>4. CallSound(r)
  BY <1>1, <1>2, MovedSound DEF CallSound, Waiting, Unsent, Reading
<1> HIDE DEF r
<1>5. Set(c, r) /\ UNCHANGED <<permits, taken, orphans, requests, restarts>>
  BY DEF Delta, r
<1>6. Holding(r) <=> Holding(call[c])
  BY <1>1, <1>3 DEF Holding
<1>7. RepliesInv'
  <2>1. PICK ends \in EndsBlock(c) :
          reply' = IF ends THEN [reply EXCEPT ![c] = Parsed(@, Len(@.emitted) + 1)] ELSE reply
    BY DEF Delta
  <2>2. CASE UNCHANGED reply
    <3>1. c \in Explanations => Paired(reply[c], r.phase)
      BY <1>1, <1>2, <1>3 DEF CallsInv, RepliesInv, Paired, Outcomes
    <3> QED
      BY <1>4, <1>5, <2>2, <3>1, RepliesStay DEF CallsInv
  <2>3. CASE c \in Explanations /\ ends
    <3> DEFINE b == Len(reply[c].emitted) + 1
               q == Parsed(reply[c], b)
    <3>1. /\ ReplySound(reply[c]) /\ reply[c].state = "open" /\ reply[c].sending = None
          /\ ~reply[c].late /\ reply[c].emitted \in Seq(Nat)
      BY <1>1, <1>2, <2>3 DEF CallsInv, RepliesInv, Paired, ReplySound, Replies
    <3>2. b \in Nat
      BY <3>1
    <3>3. ReplySound(q) /\ q.state = "open" /\ q.late = reply[c].late
      BY <3>1, <3>2, ParsedSound
    <3>4. Paired(q, r.phase)
      BY <1>3, <3>1, <3>3 DEF Paired
    <3>5. reply' = [reply EXCEPT ![c] = q]
      BY <2>1, <2>3 DEF CallsInv, RepliesInv
    <3> HIDE DEF q
    <3> QED
      BY <1>4, <1>5, <2>3, <3>3, <3>4, <3>5, ReplyChanges DEF CallsInv
  <2> QED
    BY <2>1, <2>2, <2>3 DEF EndsBlock
<1>8. LocalsInv' /\ PermitInv' /\ QuotaInv'
  BY <1>3, <1>4, <1>5, <1>6, LocalsChange, PermitStays, QuotaStays DEF CallsInv
<1> QED
  BY <1>5, <1>7, <1>8 DEF CallsInv

LEMMA ResumeKeeps == ASSUME CallsInv, NEW c \in Calls, Resume(c) PROVE CallsInv'
<1> DEFINE r == [call[c] EXCEPT !.phase = "stream"]
<1>1. CallSound(call[c]) /\ call[c] \in CallRecords /\ call[c].phase = "yielded"
  BY LocalsFacts DEF CallsInv, Resume
<1>2. "stream" \in Phases /\ "stream" \in Live /\ call[c].phase \in Live
  BY <1>1 DEF Phases, Live, Reading
<1>3. r.phase = "stream" /\ r.route = call[c].route
  BY <1>1, <1>2, PhaseOnly
<1>4. CallSound(r)
  BY <1>1, <1>2, MovedSound DEF CallSound, Waiting, Unsent, Reading
<1> HIDE DEF r
<1>5. Set(c, r) /\ UNCHANGED <<permits, taken, orphans, requests, restarts>>
  BY DEF Resume, r
<1>6. Holding(r) <=> Holding(call[c])
  BY <1>1, <1>3 DEF Holding
<1>7. RepliesInv'
  <2>1. CASE c \notin Explanations
    <3>1. UNCHANGED reply
      BY <2>1 DEF Resume
    <3> QED
      BY <1>4, <1>5, <2>1, <3>1, RepliesStay DEF CallsInv
  <2>2. CASE c \in Explanations
    <3> DEFINE q == Emitted(reply[c])
    <3>1. ReplySound(reply[c]) /\ reply[c].state = "open" /\ ~reply[c].late
      BY <1>1, <1>2, <2>2 DEF CallsInv, RepliesInv, Paired
    <3>2. ReplySound(q) /\ q.state = "open" /\ q.late = reply[c].late /\ q.sending = None
      BY <3>1, EmittedSound
    <3>3. reply' = [reply EXCEPT ![c] = q]
      BY <2>2 DEF Resume, CallsInv, RepliesInv
    <3> HIDE DEF q
    <3>4. Paired(q, r.phase)
      BY <3>1, <3>2 DEF Paired
    <3> QED
      BY <1>4, <1>5, <2>2, <3>2, <3>3, <3>4, ReplyChanges DEF CallsInv
  <2> QED
    BY <2>1, <2>2
<1>8. LocalsInv' /\ PermitInv' /\ QuotaInv'
  BY <1>3, <1>4, <1>5, <1>6, LocalsChange, PermitStays, QuotaStays DEF CallsInv
<1> QED
  BY <1>5, <1>7, <1>8 DEF CallsInv
\* Where a cancellation leaves a call.
LEMMA CancelledSound ==
  ASSUME LocalsInv, NEW c \in Calls, call[c].phase # "idle", ~Ended(c)
  PROVE  CallSound(Cancelled(c)) /\ Cancelled(c).phase \in {"record", "cancelled"}
<1> DEFINE r == Cancelled(c)
           recorded == [call[c] EXCEPT !.phase = "record", !.rows = @ + 1,
                                       !.outcome = "cancelled"]
<1>1. CallSound(call[c]) /\ call[c] \in CallRecords
  BY LocalsFacts
<1>2. "cancelled" \in Outcomes /\ call[c].phase \notin Outcomes /\ call[c].phase \in Phases
  BY <1>1 DEF Outcomes, Ended, CallRecords
<1>3. CASE call[c].phase \in {"queue", "open", "stream"}
  <2>1. r = recorded
    BY <1>3 DEF Cancelled
  <2>2. call[c].phase \in Live
    BY <1>3 DEF Live, Unsent, Reading
  <2>3. recorded.phase = "record"
    BY <1>1 DEF CallRecords
  <2>4. CallSound(recorded)
    BY <1>1, <1>2, <2>2, RecordedSound
  <2> QED
    BY <2>1, <2>3, <2>4
<1>4. CASE call[c].phase = "record"
  <2> DEFINE kept == [call[c] EXCEPT !.outcome = "cancelled"]
  <2>1. r = kept
    BY <1>4 DEF Cancelled
  <2>2. kept.phase = "record"
    BY <1>1, <1>4 DEF CallRecords
  <2>3. CallSound(kept)
    BY <1>1, <1>2, <1>4, OutcomeSound
  <2> QED
    BY <2>1, <2>2, <2>3
<1>5. CASE call[c].phase \in {"yielded", "switch"}
  <2> DEFINE closed == [call[c] EXCEPT !.letGo = TRUE]
  <2>1. r = Gone(closed, "cancelled")
    BY <1>5 DEF Cancelled
  <2>2. CallSound(Gone(closed, "cancelled"))
    BY <1>1, <1>2, LetGoSound
  <2>3. closed \in CallRecords
    BY <1>1, FlagsTyped
  <2> HIDE DEF closed
  <2>4. Gone(closed, "cancelled").phase = "cancelled"
    BY <1>2, <2>3, GoneFields
  <2> QED
    BY <2>1, <2>2, <2>4
<1>6. CASE call[c].phase \in {"reserve", "backoff"}
  <2>1. r = Gone(call[c], "cancelled")
    BY <1>6 DEF Cancelled
  <2>2. call[c].accepts = 0 /\ call[c].rows <= 1 /\ call[c].accepts <= 1
    BY <1>1, <1>6 DEF CallSound, Unsent
  <2>3. CallSound(Gone(call[c], "cancelled")) /\ Gone(call[c], "cancelled").phase = "cancelled"
    BY <1>1, <1>2, <2>2, GoneSound, GoneFields
  <2> QED
    BY <2>1, <2>3
<1> QED
  BY <1>2, <1>3, <1>4, <1>5, <1>6 DEF Phases, Outcomes

LEMMA CancelKeeps == ASSUME CallsInv, NEW c \in Calls, Cancel(c) PROVE CallsInv'
<1> DEFINE r == Cancelled(c)
<1>1. CallSound(r) /\ r.phase \in {"record", "cancelled"}
  BY CancelledSound DEF CallsInv, Cancel
<1> HIDE DEF r
<1>2. /\ Set(c, r) /\ permits' = Released(c) /\ UNCHANGED <<taken, requests, restarts>>
      /\ orphans' = IF call[c].phase = "reserve" THEN orphans + 1 ELSE orphans
      /\ ~Ended(c)
  BY DEF Cancel, r
<1>3. ~Holding(r) /\ r.phase # "queue"
  BY <1>1 DEF Holding
<1>4. LocalsInv' /\ PermitInv' /\ QuotaInv'
  BY <1>1, <1>2, <1>3, LocalsChange, PermitReturns, QuotaStays DEF CallsInv
<1>5. RepliesInv'
  <2>1. CASE c \notin Explanations
    <3>1. UNCHANGED reply
      BY <2>1 DEF Cancel
    <3> QED
      BY <1>1, <1>2, <2>1, <3>1, RepliesStay DEF CallsInv
  <2>2. CASE c \in Explanations
    <3>1. PICK late \in BOOLEAN, p \in Interrupted(reply[c]) :
            reply' = [reply EXCEPT ![c] =
                        [p EXCEPT !.late = late, !.state = IF late THEN @ ELSE "dropped"]]
      BY <2>2 DEF Cancel
    <3> DEFINE q == [p EXCEPT !.late = late, !.state = IF late THEN @ ELSE "dropped"]
    <3>2. ReplySound(reply[c]) /\ reply[c].state # "finished"
      BY <1>2, <2>2 DEF CallsInv, RepliesInv, Paired, Ended, Outcomes
    <3>3. ReplySound(q) /\ q.sending = None /\ q.state # "finished"
      BY <3>2, InterruptedSound
    <3> HIDE DEF q
    <3>4. Paired(q, r.phase)
      BY <1>1, <3>3 DEF Paired, Live, Unsent, Reading
    <3>5. reply' = [reply EXCEPT ![c] = q]
      BY <3>1 DEF q
    <3> QED
      BY <1>1, <1>2, <2>2, <3>3, <3>4, <3>5, ReplyChanges DEF CallsInv
  <2> QED
    BY <2>1, <2>2
<1>6. orphans' \in Nat
  BY <1>2 DEF CallsInv
<1> QED
  BY <1>2, <1>4, <1>5, <1>6 DEF CallsInv

LEMMA FinishKeeps == ASSUME CallsInv, NEW c \in Explanations, FinishReply(c) PROVE CallsInv'
<1> DEFINE q == Finished(reply[c])
<1>1. /\ ReplySound(reply[c]) /\ Paired(reply[c], call[c].phase) /\ reply[c].state = "open"
      /\ call[c].phase \in {"done", "cancelled"}
  BY DEF CallsInv, RepliesInv, FinishReply
<1>2. reply[c].sending = None
  BY <1>1 DEF Paired
<1>3. ReplySound(q) /\ q.sending = None
  BY <1>1, <1>2, FinishedSound
<1>4. Paired(q, call[c].phase)
  BY <1>1, <1>3 DEF Paired, Live, Unsent, Reading, Outcomes
<1>5. reply' = [reply EXCEPT ![c] = q]
  BY DEF FinishReply, Finished
<1> HIDE DEF q
<1>6. UNCHANGED <<call, permits, taken, orphans, requests, restarts>>
  BY DEF FinishReply
<1>7. RepliesInv'
  <2>1. q \in Replies /\ reply \in [Explanations -> Replies]
    BY <1>3 DEF ReplySound, CallsInv, RepliesInv
  <2>2. reply' \in [Explanations -> Replies]
    BY <1>5, <2>1
  <2>3. reply'[c] = q /\ \A d \in Explanations \ {c} : reply'[d] = reply[d]
    BY <1>5, <2>1
  <2> QED
    BY <1>3, <1>4, <1>6, <2>2, <2>3 DEF CallsInv, RepliesInv
<1> QED
  BY <1>6, <1>7
  DEF CallsInv, LocalsInv, QuotaInv, PermitInv, Queued, Holders, HoldsPermit

LEMMA OrphanKeeps == ASSUME CallsInv, OrphanReserves PROVE CallsInv'
<1>1. /\ UNCHANGED <<call, permits, requests, restarts, reply>>
      /\ orphans > 0 /\ orphans' = orphans - 1
      /\ taken' = IF taken < Quota THEN taken + 1 ELSE taken
  BY DEF OrphanReserves, QuotaLeft
<1>2. Queued' = Queued /\ Holders' = Holders
  BY <1>1 DEF Queued, Holders, HoldsPermit
<1>3. QuotaInv'
  <2>1. Cardinality(Queued) \in Nat
    BY FS_CardinalityType DEF CallsInv, QuotaInv
  <2> QED
    BY <1>1, <1>2, <2>1, CallConstants DEF CallsInv, QuotaInv
<1> QED
  BY <1>1, <1>2, <1>3 DEF CallsInv, LocalsInv, PermitInv, RepliesInv

LEMMA KillKeeps == ASSUME CallsInv, Kill PROVE CallsInv'
<1>1. /\ call' = [c \in Calls |-> Fresh] /\ permits' = Permits /\ orphans' = 0
      /\ reply' = [c \in Explanations |-> NoReply] /\ UNCHANGED requests
      /\ taken' \in taken .. Quota
      /\ restarts < MaxRestarts /\ restarts' = restarts + 1
  BY DEF Kill
<1>2. LocalsInv'
  BY <1>1, FreshTyped, FreshSound DEF LocalsInv
<1>3. Queued' = {} /\ Holders' = {}
  BY <1>1 DEF Queued, Holders, HoldsPermit, Fresh
<1>4. QuotaInv'
  <2>1. Cardinality(Queued) \in Nat
    BY FS_CardinalityType DEF CallsInv, QuotaInv
  <2>2. taken' \in Nat /\ taken' <= Quota /\ requests <= taken'
    BY <1>1, <2>1, CallConstants DEF CallsInv, QuotaInv
  <2>3. IsFiniteSet({}) /\ Cardinality({}) = 0
    BY FS_EmptySet
  <2>4. requests \in Nat /\ requests' = requests
    BY <1>1 DEF CallsInv, QuotaInv
  <2> QED
    BY <1>3, <2>2, <2>3, <2>4 DEF QuotaInv
<1>5. PermitInv'
  BY <1>1, <1>3, FS_EmptySet, CallConstants DEF PermitInv
<1>6. RepliesInv'
  <2>1. \A c \in Explanations : reply'[c] = NoReply /\ call'[c].phase = "idle"
    BY <1>1, CallConstants DEF Fresh
  <2>2. reply' \in [Explanations -> Replies]
    BY <1>1, NoReplyTyped
  <2> QED
    BY <2>1, <2>2, FirstReplySound DEF RepliesInv, Paired
<1>7. orphans' \in Nat /\ restarts' \in 0 .. MaxRestarts
  BY <1>1, CallConstants DEF CallsInv
<1> QED
  BY <1>2, <1>4, <1>5, <1>6, <1>7 DEF CallsInv

LEMMA CallsStepKeeps == CallsInv /\ [CallsNext]_callVars => CallsInv'
<1> SUFFICES ASSUME CallsInv, [CallsNext]_callVars PROVE CallsInv'
  OBVIOUS
<1>1. ASSUME NEW c \in Calls, Step(c) PROVE CallsInv'
  BY <1>1, BeginKeeps, ReserveKeeps, AcquireKeeps, AcceptKeeps, StreamEndsKeeps,
     AttemptFailsKeeps, WaitEndsKeeps, RowWrittenKeeps, DeltaKeeps, ResumeKeeps, CancelKeeps
  DEF Step
<1>2. CASE UNCHANGED callVars
  BY <1>2
  DEF callVars, CallsInv, LocalsInv, QuotaInv, PermitInv, RepliesInv, Queued, Holders,
      HoldsPermit
<1> QED
  BY <1>1, <1>2, FinishKeeps, OrphanKeeps, KillKeeps DEF CallsNext

LEMMA CallsInvAlways == CallsSpec => []CallsInv
BY CallsInitEstablishes, CallsStepKeeps, PTL DEF CallsSpec

\* What is paid for is counted, whatever is retried, handed over, cancelled or killed.
LEMMA CallsInvAccounts == CallsInv => PaidWorkIsAccounted
<1> SUFFICES ASSUME CallsInv PROVE PaidWorkIsAccounted
  OBVIOUS
<1>1. SpendWithinQuota
  <2>1. Cardinality(Queued) \in Nat
    BY FS_CardinalityType DEF CallsInv, QuotaInv
  <2> QED
    BY <2>1, CallConstants DEF CallsInv, QuotaInv, SpendWithinQuota
<1>2. AcceptedWorkIsNotReplayed
  BY DEF CallsInv, LocalsInv, CallSound, AcceptedWorkIsNotReplayed
<1>3. AcceptedWorkIsRecorded
  BY DEF CallsInv, LocalsInv, CallSound, AcceptedWorkIsRecorded, Ended, Outcomes
<1> QED
  BY <1>1, <1>2, <1>3 DEF PaidWorkIsAccounted

LEMMA CallsInvTells == CallsInv => OwedSentenceIsTold
BY DEF CallsInv, RepliesInv, ReplySound, OwedSentenceIsTold

\* The calls of a process stay in the ranges that CallsTypeOK gives them: permits are
\* neither lost nor handed out twice, and a route is not asked more often than it may.
THEOREM CallsTypeCorrect == CallsSpec => []CallsTypeOK
<1>1. CallsInv => CallsTypeOK
  <2> SUFFICES ASSUME CallsInv PROVE CallsTypeOK
    OBVIOUS
  <2>1. Cardinality(Holders) \in Nat
    BY FS_CardinalityType DEF CallsInv, PermitInv
  <2>2. permits \in 0 .. Permits
    BY <2>1, CallConstants DEF CallsInv, PermitInv
  <2>3. \A c \in Calls :
          /\ call[c].phase \in Phases /\ call[c].route \in Routes
          /\ call[c].tries \in 0 .. MaxRetries /\ call[c].rows \in Nat
          /\ call[c].accepts \in Nat
    BY CallConstants DEF CallsInv, LocalsInv, CallSound, CallRecords
  <2> QED
    BY <2>2, <2>3, CallConstants DEF CallsInv, QuotaInv, CallsTypeOK
<1> QED
  BY <1>1, CallsInvAlways, PTL

\* The lifetime quota bounds the requests really sent, accepted work is asked for once and
\* recorded once (llm_adapter.py): for every number of calls, permits, attempts and kills.
THEOREM PaidWorkIsCounted == CallsSpec => []PaidWorkIsAccounted
BY CallsInvAlways, CallsInvAccounts, PTL

\* An explanation that finishes has said the sentence it owes and shown what it stores
\* (explanation_blocks.py): for every length of the text and every interruption.
THEOREM OwedSentencesAreTold == CallsSpec => []OwedSentenceIsTold
BY CallsInvAlways, CallsInvTells, PTL
(***************************************************************************)
(* Part 2: LiveGate.  First its operators: the cases an invocation covers, *)
(* the rules that decide a case, and the accounts of a capture.            *)
(***************************************************************************)
Reasons == {"none", "browser", "telemetry", "budget", "judged", "outage", "provider", "wrong"}

Evaluations ==
  [decision : Decisions, reason : Reasons, judged : 0 .. 2, critical : BOOLEAN, clear : 0 .. 2]

Policies ==
  [status : {"pass", "infrastructure", "incomplete", "over_budget"}, blocks : BOOLEAN]

Modes == {"gate", "fresh", "replay"}

Runs ==
  [mode : Modes, at : 1 .. (CaseCount + 1), first : BOOLEAN, tries : 0 .. 1, calls : Nat,
   limit : 0 .. JudgeLimit, cost : Policies, evals : [Cases -> Evaluations]]

LEMMA GateConstants ==
  /\ CaseCount \in Nat /\ CaseCount >= 1 /\ JudgeLimit \in Nat /\ OtherDimensions \in Nat
  /\ CostBlocks \in BOOLEAN
BY GateAssumption

\* Every set of natural numbers that is not empty has a least element.
LEMMA LeastExists ==
  ASSUME NEW T \in SUBSET Nat, T # {} PROVE \E x \in T : \A y \in T : x <= y
<1> DEFINE R == {ss \in Nat \X Nat : ss[1] < ss[2]}
<1>1. IsWellFoundedOn(R, Nat)
  BY NatLessThanWellFounded DEF OpToRel
<1>2. \A x, y \in Nat : <<y, x>> \in R <=> y < x
  OBVIOUS
<1> HIDE DEF R
<1>3. PICK x \in T : \A y \in T : ~(<<y, x>> \in R)
  <2>1. \E x \in T : \A y \in T : ~(<<y, x>> \in R)
    BY <1>1, WFMin
  <2> QED
    BY <2>1
<1>4. ASSUME NEW y \in T PROVE x <= y
  <2>1. x \in Nat /\ y \in Nat
    OBVIOUS
  <2>2. ~(y < x)
    BY <1>2, <1>3, <2>1
  <2> QED
    BY <2>1, <2>2
<1> QED
  BY <1>4

\* The next case of an invocation, and of the gate, which covers them all.
LEMMA NextCaseTyped ==
  ASSUME NEW mode, NEW c \in 1 .. (CaseCount + 1)
  PROVE  NextCase(mode, c) \in c .. (CaseCount + 1)
<1> DEFINE left == {d \in c .. CaseCount : Included(mode, d)}
           next == CHOOSE d \in left : \A e \in left : d <= e
<1>1. NextCase(mode, c) = IF left = {} THEN CaseCount + 1 ELSE next
  BY DEF NextCase
<1>2. left \subseteq Nat /\ left \subseteq c .. CaseCount
  BY GateConstants
<1> HIDE DEF left
<1>3. left # {} => \E d \in left : \A e \in left : d <= e
  BY <1>2, LeastExists
<1>4. left # {} => next \in left
  BY <1>3
<1> HIDE DEF next
<1>5. CASE left = {}
  <2>1. CaseCount + 1 \in c .. (CaseCount + 1)
    BY GateConstants
  <2> QED
    BY <1>1, <1>5, <2>1
<1>6. CASE left # {}
  <2>1. next \in c .. CaseCount
    BY <1>2, <1>4, <1>6
  <2>2. next \in c .. (CaseCount + 1)
    BY <2>1, GateConstants
  <2> QED
    BY <1>1, <1>6, <2>2
<1> QED
  BY <1>5, <1>6

LEMMA NextCaseOfGate ==
  ASSUME NEW c \in 1 .. (CaseCount + 1) PROVE NextCase("gate", c) = c
<1> DEFINE left == {d \in c .. CaseCount : Included("gate", d)}
<1>1. left = c .. CaseCount
  BY DEF Included
<1>2. NextCase("gate", c) =
        IF left = {} THEN CaseCount + 1 ELSE CHOOSE d \in left : \A e \in left : d <= e
  BY DEF NextCase
<1>3. CASE c = CaseCount + 1
  <2>1. left = {}
    BY <1>1, <1>3, GateConstants
  <2> QED
    BY <1>2, <1>3, <2>1
<1>4. CASE c <= CaseCount
  <2> DEFINE P(d) == \A e \in c .. CaseCount : d <= e
             least == CHOOSE d \in c .. CaseCount : P(d)
  <2>1. c \in c .. CaseCount /\ P(c)
    BY <1>4, GateConstants
  <2>2. least \in c .. CaseCount /\ P(least)
    BY <2>1
  <2>3. least <= c /\ c <= least
    BY <2>1, <2>2, GateConstants
  <2>4. NextCase("gate", c) = least
    BY <1>1, <1>2, <2>1
  <2> QED
    BY <2>2, <2>3, <2>4, GateConstants
<1> QED
  BY <1>3, <1>4, GateConstants

\* What is kept is sound: it passed in the browser, and neither a critical failure nor two
\* clear ones were seen.  A case fails only for such a reason.
Kept == {"pass", "manual_review"}

Earned(e, result) ==
  e.decision \in Kept =>
    /\ result = "passed" /\ ~e.critical
    /\ e.clear = 0 \/ (e.clear = 1 /\ e.judged = 2 /\ e.decision = "manual_review")

Deserved(e, result) ==
  e.decision = "fail" => result \in {"quality", "expansion"} \/ e.critical \/ e.clear = 2

\* The evaluations of a run: typed, decided and sound.
Settled(e, result) ==
  /\ e \in Evaluations /\ e.decision # "none"
  /\ Earned(e, result) /\ Deserved(e, result)

LEMMA EvaluationFields ==
  ASSUME NEW decision \in Decisions, NEW reason \in Reasons, NEW judged \in 0 .. 2,
         NEW critical \in BOOLEAN, NEW clear \in 0 .. 2
  PROVE  LET e == Evaluation(decision, reason, judged, critical, clear) IN
         /\ e \in Evaluations /\ e.decision = decision /\ e.judged = judged
         /\ e.critical = critical /\ e.clear = clear
BY DEF Evaluation, Evaluations

LEMMA UnjudgedTyped == Unjudged \in Evaluations /\ Unjudged.decision = "none"
BY DEF Unjudged, Evaluation, Evaluations, Decisions, Reasons

LEMMA DeterministicSound ==
  ASSUME NEW r \in Results, r # "passed"
  PROVE  Settled(Evaluation(Deterministic(r), "browser", 0, FALSE, 0), r)
<1> DEFINE e == Evaluation(Deterministic(r), "browser", 0, FALSE, 0)
<1>1. Deterministic(r) \in {"infrastructure", "fail"}
  BY DEF Deterministic
<1>2. e \in Evaluations /\ e.decision = Deterministic(r)
  BY <1>1 DEF Evaluation, Evaluations, Decisions, Reasons
<1>3. Deterministic(r) = "fail" => r \in {"quality", "expansion"}
  BY DEF Deterministic, Results
<1> HIDE DEF e
<1> QED
  BY <1>1, <1>2, <1>3 DEF Settled, Earned, Deserved, Kept, e

LEMMA InfrastructureSound ==
  ASSUME NEW reason \in Reasons, NEW judged \in 0 .. 2, NEW clear \in 0 .. 2, NEW r
  PROVE  Settled(Evaluation("infrastructure", reason, judged, FALSE, clear), r)
<1> DEFINE e == Evaluation("infrastructure", reason, judged, FALSE, clear)
<1>1. e \in Evaluations /\ e.decision = "infrastructure"
  BY DEF Evaluation, Evaluations, Decisions
<1> HIDE DEF e
<1> QED
  BY <1>1 DEF Settled, Earned, Deserved, Kept, e

\* One clear failure decides nothing, two or a critical one fail the case.
LEMMA JudgedSound ==
  ASSUME NEW j \in Judgments, run.first \in BOOLEAN, run.first \/ ~NeedsSecond(j)
  PROVE  Settled(Judged(j), "passed")
<1>1. j.critical \in BOOLEAN /\ j.borderline \in BOOLEAN /\ Clear(j) \in BOOLEAN
  BY DEF Judgments, Clear
<1>2. /\ SingleStatus(j) \in {"pass", "fail", "manual_review"}
      /\ SingleStatus(j) = "fail" <=> j.critical \/ Clear(j)
  BY <1>1 DEF SingleStatus
<1>3. CASE run.first
  <2> DEFINE d == IF j.critical THEN "fail" ELSE DecideBoth(j)
             n == IF Clear(j) THEN 2 ELSE 1
             e == Evaluation(d, "judged", 2, j.critical, n)
  <2>1. Judged(j) = e
    BY <1>3 DEF Judged
  <2>2. d = IF j.critical \/ Clear(j) THEN "fail" ELSE "manual_review"
    BY <1>1, <1>2 DEF DecideBoth
  <2>3. d \in Decisions /\ n \in 0 .. 2 /\ "judged" \in Reasons
    BY <2>2 DEF Decisions, Reasons
  <2>4. /\ e \in Evaluations /\ e.decision = d /\ e.judged = 2 /\ e.critical = j.critical
        /\ e.clear = n
    BY <1>1, <2>3, EvaluationFields
  <2> HIDE DEF e
  <2> QED
    BY <1>1, <2>1, <2>2, <2>4 DEF Settled, Earned, Deserved, Kept
<1>4. CASE ~run.first
  <2> DEFINE n == IF Clear(j) THEN 1 ELSE 0
             e == Evaluation(DecideFirst(j), "judged", 1, j.critical, n)
  <2>1. Judged(j) = e
    BY <1>4 DEF Judged
  <2>2. DecideFirst(j) = SingleStatus(j) /\ (SingleStatus(j) = "fail" => j.critical)
    BY <1>4 DEF DecideFirst, NeedsSecond
  <2>3. DecideFirst(j) \in Decisions /\ n \in 0 .. 2 /\ "judged" \in Reasons
    BY <1>2, <2>2 DEF Decisions, Reasons
  <2>4. /\ e \in Evaluations /\ e.decision = DecideFirst(j) /\ e.judged = 1
        /\ e.critical = j.critical /\ e.clear = n
    BY <1>1, <2>3, EvaluationFields
  <2> HIDE DEF e
  <2> QED
    BY <1>1, <1>2, <2>1, <2>2, <2>4 DEF Settled, Earned, Deserved, Kept
<1> QED
  BY <1>3, <1>4

LEMMA JudgeFailedSound ==
  ASSUME NEW reason \in Reasons, NEW r PROVE Settled(JudgeFailed(reason), r)
<1> DEFINE n == IF run.first THEN 1 ELSE 0
<1>1. n \in 0 .. 2
  OBVIOUS
<1> QED
  BY <1>1, InfrastructureSound DEF JudgeFailed

\* A failure of the product is reported as one, and only a set of passes passes.
LEMMA ExitStatusFacts ==
  ASSUME NEW decisions
  PROVE  /\ "fail" \in decisions => ExitStatus(decisions) = "fail"
         /\ ExitStatus(decisions) = "pass" =>
              "fail" \notin decisions /\ "infrastructure" \notin decisions
              /\ "manual_review" \notin decisions
BY DEF ExitStatus

(***************************************************************************)
(* The accounts of a capture.                                              *)
(***************************************************************************)

\* A thread that some case names and no two share has the case that names it as its owner.
LEMMA OwnerNames ==
  ASSUME NEW threads, DOMAIN threads = Cases, ~Shared(threads), NEW t,
         Owner(threads, t) # Nobody
  PROVE  /\ Owner(threads, t) \in Cases /\ t \in threads[Owner(threads, t)]
         /\ \A c \in Cases : t \in threads[c] => c = Owner(threads, t)
<1> DEFINE owners == {c \in DOMAIN threads : t \in threads[c]}
<1>1. owners # {} /\ Owner(threads, t) = CHOOSE c \in owners : \A d \in owners : c <= d
  BY DEF Owner
<1>2. PICK o \in owners : TRUE
  BY <1>1
<1>3. \A d \in owners : d = o
  BY <1>2 DEF Shared
<1>4. o \in Nat
  BY <1>2, GateConstants DEF Cases
<1>5. \E c \in owners : \A d \in owners : c <= d
  BY <1>2, <1>3, <1>4
<1>6. Owner(threads, t) \in owners
  BY <1>1, <1>5
<1>7. Owner(threads, t) = o
  BY <1>3, <1>6
<1> QED
  BY <1>3, <1>6, <1>7

\* The whole is the sum of the cases: the attempts of the first c cases are those of the
\* first c - 1 and those charged to c, which are of no other case.
LEMMA SubtotalIsTheSum ==
  ASSUME NEW threads, DOMAIN threads = Cases, ~Shared(threads),
         NEW telemetry, Len(telemetry) \in Nat, DOMAIN telemetry = 1 .. Len(telemetry)
  PROVE  IsSumOf(Subtotal(threads, telemetry),
                 [c \in Cases |-> Charged(threads, telemetry, c)])
<1> DEFINE places == (DOMAIN telemetry) \X (1 .. 2)
           owner(p) == Owner(threads, telemetry[p[1]].thread)
           paid(p) == /\ p[2] \in DOMAIN telemetry[p[1]].attempts
                      /\ telemetry[p[1]].attempts[p[2]].usable
           first(c) == {p \in places : owner(p) \in 1 .. c /\ paid(p)}
           own(c) == {p \in places : owner(p) = c /\ paid(p)}
           all == {p \in places : owner(p) # Nobody /\ paid(p)}
           total == Subtotal(threads, telemetry)
           costs == [c \in Cases |-> Charged(threads, telemetry, c)]
           running == [c \in 0 .. CaseCount |-> Cardinality(first(c))]
<1>1. IsFiniteSet(places)
  <2>1. \A n \in Nat : IsFiniteSet(1 .. n)
    BY FS_Interval
  <2>2. IsFiniteSet(DOMAIN telemetry) /\ IsFiniteSet(1 .. 2)
    BY <2>1
  <2> QED
    BY <2>2, FS_Product
<1>2. total = Cardinality(all)
  BY DEF Subtotal
<1>3. ASSUME NEW c \in Cases PROVE costs[c] = Cardinality(own(c))
  <2>1. own(c) = {p \in places : /\ p[1] \in CallsOf(threads, telemetry, c)
                                 /\ p[2] \in DOMAIN telemetry[p[1]].attempts
                                 /\ telemetry[p[1]].attempts[p[2]].usable}
    BY DEF CallsOf
  <2> QED
    BY <1>3, <2>1 DEF Charged
<1>4. \A p \in places : owner(p) \in Cases \/ owner(p) = Nobody
  BY OwnerNames
<1>5. first(CaseCount) = all
  <2>1. \A c \in Cases : c # Nobody
    BY GateConstants DEF Cases, Nobody
  <2> QED
    BY <1>4, <2>1 DEF Cases
<1> HIDE DEF places, owner, paid, total, costs
<1>6. first(0) = {}
  OBVIOUS
<1>7. \A c \in 0 .. CaseCount : first(c) \subseteq all
  <2>1. \A c \in 0 .. CaseCount : 1 .. c \subseteq 1 .. CaseCount
    BY GateConstants
  <2>2. \A c \in 0 .. CaseCount : first(c) \subseteq first(CaseCount)
    BY <2>1
  <2> QED
    BY <1>5, <2>2
<1>8. IsFiniteSet(all)
  BY <1>1, FS_Subset
<1>9. ASSUME NEW c \in 0 .. CaseCount
      PROVE  IsFiniteSet(first(c)) /\ running[c] \in 0 .. total
  <2>1. first(c) \subseteq all
    BY <1>7, <1>9
  <2> HIDE DEF first, all
  <2>2. IsFiniteSet(first(c)) /\ Cardinality(first(c)) <= Cardinality(all)
    BY <1>8, <2>1, FS_Subset
  <2>3. Cardinality(first(c)) \in Nat /\ Cardinality(all) \in Nat
    BY <1>8, <2>2, FS_CardinalityType
  <2> QED
    BY <1>2, <1>9, <2>2, <2>3
<1>10. ASSUME NEW c \in Cases PROVE running[c] = running[c - 1] + costs[c]
  <2>1. c \in Nat /\ c - 1 \in 0 .. CaseCount /\ c \in 0 .. CaseCount
    BY <1>10, GateConstants DEF Cases
  <2>2. 1 .. c = (1 .. (c - 1)) \cup {c} /\ c \notin 1 .. (c - 1)
    BY <2>1
  <2>3. first(c) = first(c - 1) \cup own(c) /\ first(c - 1) \cap own(c) = {}
    BY <2>2
  <2>4. IsFiniteSet(first(c - 1)) /\ IsFiniteSet(own(c))
    BY <1>1, <1>9, <2>1, FS_Subset
  <2> DEFINE before == first(c - 1)
             mine == own(c)
  <2>5. before \cap mine = {} /\ IsFiniteSet(before) /\ IsFiniteSet(mine)
    BY <2>3, <2>4
  <2>6. first(c) = before \cup mine
    BY <2>3
  <2>7. running[c] = Cardinality(first(c)) /\ running[c - 1] = Cardinality(before)
    BY <2>1
  <2>8. costs[c] = Cardinality(mine)
    BY <1>3
  <2> HIDE DEF first, own, before, mine, running
  <2>9. Cardinality(before \cup mine) = Cardinality(before) + Cardinality(mine)
    <3>1. Cardinality(before \cup mine)
            = Cardinality(before) + Cardinality(mine) - Cardinality(before \cap mine)
      BY <2>5, FS_Union
    <3>2. Cardinality(before \cap mine) = 0
      BY <2>5, FS_EmptySet
    <3> QED
      BY <2>5, <3>1, <3>2, FS_CardinalityType
  <2> QED
    BY <2>6, <2>7, <2>8, <2>9
<1>11. running[0] = 0 /\ running[CaseCount] = total
  <2>1. 0 \in 0 .. CaseCount /\ CaseCount \in 0 .. CaseCount
    BY GateConstants
  <2>2. running[0] = Cardinality(first(0)) /\ running[CaseCount] = Cardinality(first(CaseCount))
    BY <2>1
  <2> HIDE DEF running, first, all
  <2> QED
    BY <1>2, <1>5, <1>6, <2>2, FS_EmptySet
<1>12. running \in [0 .. CaseCount -> 0 .. total]
  BY <1>9
<1> HIDE DEF running
<1>13. IsSumOf(total, costs)
  BY <1>10, <1>11, <1>12 DEF IsSumOf
<1> QED
  BY <1>13 DEF total, costs

\* A total is given only for accounts that hide nothing.
LEMMA TotalIsSound ==
  ASSUME NEW threads \in ThreadSets, NEW telemetry \in Telemetries \cup FreshTelemetries,
         AccountStatus(threads, telemetry) = "pass"
  PROVE  /\ Book(threads, telemetry).sound
         /\ \A c \in Cases : CaseCosts(threads, telemetry)[c] = Charged(threads, telemetry, c)
<1>1. DOMAIN threads = Cases
  BY CaptureAssumption DEF Cases
<1>2. /\ ~Shared(threads) /\ Untold(threads, telemetry) = {}
      /\ \A i \in DOMAIN telemetry : /\ Owner(threads, telemetry[i].thread) # Nobody
                                     /\ ~Faulty(telemetry[i])
                                     /\ ~Incomplete(telemetry[i])
  BY DEF AccountStatus, HasErrors, HasIncomplete
<1>3. ASSUME NEW i \in DOMAIN telemetry
      PROVE  /\ Cardinality({c \in Cases : telemetry[i].thread \in threads[c]}) = 1
             /\ telemetry[i].attempts # <<>> /\ telemetry[i].complete
             /\ telemetry[i].search = "ok"
             /\ \A k \in DOMAIN telemetry[i].attempts :
                   telemetry[i].attempts[k] = [usable |-> TRUE, complete |-> TRUE]
  <2> DEFINE o == Owner(threads, telemetry[i].thread)
             attempts == telemetry[i].attempts
  <2>1. {c \in Cases : telemetry[i].thread \in threads[c]} = {o}
    BY <1>1, <1>2, OwnerNames
  <2>2. Cardinality({o}) = 1
    BY FS_Singleton
  <2>3. attempts # <<>> /\ telemetry[i].search = "ok" /\ telemetry[i].complete
    BY <1>2, CaptureAssumption DEF Faulty, Incomplete
  <2>4. ASSUME NEW k \in DOMAIN attempts
        PROVE  attempts[k] = [usable |-> TRUE, complete |-> TRUE]
    <3>1. attempts \in Seq(Attempts)
      BY CaptureAssumption
    <3>2. attempts[k] \in Attempts
      BY <3>1
    <3>3. attempts[k].usable /\ attempts[k].complete
      BY <1>2, <2>3, <2>4 DEF Faulty, Incomplete
    <3> QED
      BY <3>2, <3>3 DEF Attempts
  <2> QED
    BY <2>1, <2>2, <2>3, <2>4
<1>4. ASSUME NEW c \in Cases, threads[c] # {}
      PROVE  \E i \in DOMAIN telemetry : telemetry[i].thread \in threads[c]
  <2>1. CallsOf(threads, telemetry, c) # {}
    BY <1>1, <1>2, <1>4 DEF Untold
  <2>2. PICK i \in DOMAIN telemetry : Owner(threads, telemetry[i].thread) = c
    BY <2>1 DEF CallsOf
  <2>3. telemetry[i].thread \in threads[c]
    BY <1>1, <1>2, <2>2, OwnerNames
  <2> QED
    BY <2>3
<1>5. Book(threads, telemetry).sound
  BY <1>3, <1>4 DEF Book
<1>6. InvalidCases(threads, telemetry) = {}
  BY <1>2 DEF InvalidCases, CallsOf
<1> QED
  BY <1>1, <1>5, <1>6 DEF CaseCosts

\* What a total and a case's cost are worth, for every capture.
Honest(b) ==
  /\ b.cost.total # Unknown =>
       /\ b.sound /\ \A c \in Cases : b.cost.cases[c] = b.made[c]
       /\ IsSumOf(b.cost.total, b.cost.cases)
  /\ \A c \in Cases : b.cost.cases[c] \in {Unknown, b.made[c]}

LEMMA BooksAreHonest ==
  ASSUME NEW threads \in ThreadSets, NEW telemetry \in Telemetries \cup FreshTelemetries
  PROVE  Honest(Book(threads, telemetry))
<1> DEFINE b == Book(threads, telemetry)
<1>1. /\ b.cost = ApplicationCost(threads, telemetry)
      /\ b.made = [c \in Cases |-> Charged(threads, telemetry, c)]
  BY DEF Book
<1>2. DOMAIN threads = Cases
  BY CaptureAssumption DEF Cases
<1> HIDE DEF b
<1>3. CASE telemetry = <<>>
  <2>1. b.cost.total = Unknown /\ b.cost.cases = [c \in Cases |-> Unknown]
    BY <1>1, <1>2, <1>3 DEF ApplicationCost
  <2>2. Honest(b)
    BY <2>1 DEF Honest
  <2> QED
    BY <2>2 DEF b
<1>4. CASE telemetry # <<>> /\ AccountStatus(threads, telemetry) # "pass"
  <2>1. b.cost.total = Unknown /\ b.cost.cases = CaseCosts(threads, telemetry)
    BY <1>1, <1>4 DEF ApplicationCost
  <2>2. \A c \in Cases : b.cost.cases[c] \in {Unknown, b.made[c]}
    BY <1>1, <1>2, <2>1 DEF CaseCosts
  <2>3. Honest(b)
    BY <2>1, <2>2 DEF Honest
  <2> QED
    BY <2>3 DEF b
<1>5. CASE telemetry # <<>> /\ AccountStatus(threads, telemetry) = "pass"
  <2>1. /\ b.cost.total = Subtotal(threads, telemetry)
        /\ b.cost.cases = CaseCosts(threads, telemetry)
    BY <1>1, <1>5 DEF ApplicationCost
  <2>2. b.sound /\ \A c \in Cases : b.cost.cases[c] = b.made[c]
    BY <1>1, <1>5, <2>1, TotalIsSound DEF b
  <2>3. IsSumOf(Subtotal(threads, telemetry), b.made)
    <3>1. ~Shared(threads)
      BY <1>5 DEF AccountStatus, HasErrors
    <3> QED
      BY <1>1, <1>2, <3>1, CaptureAssumption, SubtotalIsTheSum
  <2>4. b.cost.cases = b.made
    BY <1>1, <1>2, <2>1, <2>2 DEF CaseCosts
  <2>5. Honest(b)
    BY <2>1, <2>2, <2>3, <2>4 DEF Honest
  <2> QED
    BY <2>5 DEF b
<1> QED
  BY <1>3, <1>4, <1>5
(***************************************************************************)
(* The invariant of the gate.                                              *)
(***************************************************************************)
InGate == step = "evaluate" /\ run.mode = "gate"
InResume == step = "evaluate" /\ run.mode # "gate"

GateTyped ==
  /\ step \in {"capture", "start", "evaluate", "reported", "freshCapture", "judge", "ended"}
  /\ results \in [Cases -> Results] /\ run \in Runs /\ source \in [Cases -> Evaluations]
  /\ groups \in [Cases -> {"none", "fresh", "replay", "carried"}]
  /\ remaining \in 0 .. JudgeLimit /\ reserved \in BOOLEAN /\ head \in 0 .. 1
  /\ combined \in {"none", "pass", "fail"} /\ sent \in [{"gate", "resume"} -> Nat]

\* An invocation's calls exceed its limit by one refused attempt for a case at most.
CallsBounded == run.calls <= run.limit + run.at - 1

\* An invocation that has evaluated nothing.
Empty(r) == r.mode = "gate" /\ \A c \in Cases : r.evals[c] = Unjudged

\* What the stages of the work have not begun yet.
Placed ==
  /\ step = "start" => book \in Books
  /\ step \in {"capture", "start", "freshCapture"} => Empty(run)
  /\ step = "capture" => \A c \in Cases : source[c].decision = "none"
  /\ step \in {"capture", "start"} \/ InGate => statuses = {} /\ ~reserved
  /\ InResume => reserved

\* Every evaluation rests on what was observed, and the gate leaves no case behind it.
Graded ==
  /\ \A c \in Cases :
       /\ Earned(run.evals[c], results[c]) /\ Deserved(run.evals[c], results[c])
       /\ Earned(source[c], results[c])
  /\ InGate => \A c \in Cases : c < run.at => run.evals[c].decision # "none"

\* A resume has its plan, and what is to be run again was not kept.
Planned ==
  /\ step \in {"freshCapture", "judge"} \/ InResume =>
       /\ \A c \in Cases : groups[c] # "none"
       /\ \E c \in Cases : groups[c] = "fresh"
  /\ step = "freshCapture" =>
       \A c \in Cases : groups[c] = "fresh" => source[c].decision \notin Kept

\* Attempts are sent within the limit of an invocation, and the two invocations of a resume
\* share one budget.
Spent ==
  /\ sent.gate <= JudgeLimit /\ sent.resume <= JudgeLimit
  /\ step \in {"capture", "start"} => sent.gate = 0
  /\ ~reserved => sent.resume = 0
  /\ InGate => /\ run.limit = JudgeLimit /\ sent.gate <= run.calls
               /\ run.calls <= run.limit => sent.gate = run.calls
  /\ InResume => run.limit = remaining /\ sent.resume <= JudgeLimit - remaining + run.calls

Concluded == combined = "pass" => step = "ended"

GateInv ==
  /\ GateTyped /\ CallsBounded /\ Placed /\ Graded /\ Planned /\ Spent /\ Concluded
  /\ ReportIsHonest /\ CombinedPassIsEarned

(***************************************************************************)
(* The records of an invocation.                                           *)
(***************************************************************************)
LEMMA NoCostTyped == NoCost \in Policies
BY DEF NoCost, Policies

LEMMA CostPolicyTyped ==
  ASSUME NEW cost PROVE CostPolicy(cost, CostBlocks, SuiteLimit) \in Policies
BY GateConstants DEF CostPolicy, Policies

LEMMA NewRunTyped ==
  ASSUME NEW mode \in Modes, NEW limit \in 0 .. JudgeLimit, NEW cost \in Policies
  PROVE  LET n == NewRun(mode, limit, cost) IN
         /\ n \in Runs /\ n.mode = mode /\ n.limit = limit /\ n.calls = 0 /\ n.cost = cost
         /\ n.at = NextCase(mode, 1) /\ \A c \in Cases : n.evals[c] = Unjudged
<1>1. NextCase(mode, 1) \in 1 .. (CaseCount + 1)
  <2>1. 1 \in 1 .. (CaseCount + 1)
    BY GateConstants
  <2> QED
    BY <2>1, NextCaseTyped
<1>2. [c \in Cases |-> Unjudged] \in [Cases -> Evaluations]
  BY UnjudgedTyped
<1>3. NewRun(mode, limit, cost) \in Runs
  BY <1>1, <1>2 DEF NewRun, Runs
<1> QED
  BY <1>3 DEF NewRun

LEMMA NoRunTyped ==
  /\ NoRun \in Runs /\ NoRun.mode = "gate" /\ NoRun.calls = 0 /\ NoRun.limit = 0
  /\ NoRun.at = CaseCount + 1 /\ \A c \in Cases : NoRun.evals[c] = Unjudged
<1> DEFINE n == NewRun("gate", 0, NoCost)
<1>1. "gate" \in Modes /\ 0 \in 0 .. JudgeLimit
  BY GateConstants DEF Modes
<1>2. /\ n \in Runs /\ n.mode = "gate" /\ n.limit = 0 /\ n.calls = 0
      /\ \A c \in Cases : n.evals[c] = Unjudged
  BY <1>1, NoCostTyped, NewRunTyped
<1>3. NoRun = [n EXCEPT !.at = CaseCount + 1]
  BY DEF NoRun
<1>4. CaseCount + 1 \in 1 .. (CaseCount + 1)
  BY GateConstants
<1> HIDE DEF n
<1>5. [n EXCEPT !.at = CaseCount + 1] \in Runs
  BY <1>2, <1>4 DEF Runs
<1> QED
  BY <1>2, <1>3, <1>5 DEF Runs

\* A case of an invocation is settled: what that makes of its record.
Settling(r, a, e, m) == [r EXCEPT !.evals[a] = e, !.first = FALSE, !.tries = 0, !.at = m]

LEMMA SettledFields ==
  ASSUME NEW r \in Runs, NEW a \in Cases, NEW e \in Evaluations,
         NEW m \in 1 .. (CaseCount + 1)
  PROVE  LET n == Settling(r, a, e, m) IN
         /\ n \in Runs /\ n.mode = r.mode /\ n.limit = r.limit /\ n.calls = r.calls
         /\ n.at = m /\ n.evals = [r.evals EXCEPT ![a] = e]
<1> DEFINE n == [r EXCEPT !.evals[a] = e, !.first = FALSE, !.tries = 0, !.at = m]
           f == [r EXCEPT !.evals[a] = e]
           g == [f EXCEPT !.first = FALSE]
           h == [g EXCEPT !.tries = 0]
<1>1. [r.evals EXCEPT ![a] = e] \in [Cases -> Evaluations]
  BY DEF Runs
<1>2. f \in Runs
  BY <1>1 DEF Runs
<1>3. g \in Runs
  <2> HIDE DEF f
  <2> QED
    BY <1>2 DEF Runs
<1>4. h \in Runs
  <2> HIDE DEF g
  <2> QED
    BY <1>3 DEF Runs
<1>5. n \in Runs
  <2> HIDE DEF h
  <2>1. [h EXCEPT !.at = m] \in Runs
    BY <1>4 DEF Runs
  <2> QED
    BY <2>1 DEF h
<1>6. /\ n.mode = r.mode /\ n.limit = r.limit /\ n.calls = r.calls
      /\ n.at = m /\ n.evals = [r.evals EXCEPT ![a] = e]
  BY DEF Runs
<1> QED
  BY <1>5, <1>6 DEF Settling

LEMMA CountedFields ==
  ASSUME NEW r \in Runs
  PROVE  LET n == [r EXCEPT !.calls = @ + 1] IN
         /\ n \in Runs /\ n.mode = r.mode /\ n.limit = r.limit /\ n.calls = r.calls + 1
         /\ n.at = r.at /\ n.evals = r.evals
<1> DEFINE n == [r EXCEPT !.calls = @ + 1]
<1>1. r.calls + 1 \in Nat
  BY DEF Runs
<1>2. n \in Runs
  BY <1>1 DEF Runs
<1>3. /\ n.mode = r.mode /\ n.limit = r.limit /\ n.calls = r.calls + 1
      /\ n.at = r.at /\ n.evals = r.evals
  BY DEF Runs
<1> QED
  BY <1>2, <1>3

\* A case is looked at again: what that makes of its record.
AskedAgain(r, first, tries) == [r EXCEPT !.first = first, !.tries = tries]

LEMMA WaitingFields ==
  ASSUME NEW r \in Runs, NEW first \in BOOLEAN, NEW tries \in 0 .. 1
  PROVE  LET n == AskedAgain(r, first, tries) IN
         /\ n \in Runs /\ n.mode = r.mode /\ n.limit = r.limit /\ n.calls = r.calls
         /\ n.at = r.at /\ n.evals = r.evals
<1> DEFINE n == [r EXCEPT !.first = first, !.tries = tries]
           f == [r EXCEPT !.first = first]
<1>1. f \in Runs
  BY DEF Runs
<1>2. n \in Runs
  <2> HIDE DEF f
  <2>1. [f EXCEPT !.tries = tries] \in Runs
    BY <1>1 DEF Runs
  <2> QED
    BY <2>1 DEF f
<1>3. /\ n.mode = r.mode /\ n.limit = r.limit /\ n.calls = r.calls
      /\ n.at = r.at /\ n.evals = r.evals
  BY DEF Runs
<1> QED
  BY <1>2, <1>3 DEF AskedAgain
(***************************************************************************)
(* The steps of an invocation.                                             *)
(***************************************************************************)
LEMMA RunFacts ==
  ASSUME GateInv
  PROVE  /\ run \in Runs /\ run.mode \in Modes /\ run.at \in 1 .. (CaseCount + 1)
         /\ run.calls \in Nat /\ run.limit \in 0 .. JudgeLimit /\ run.first \in BOOLEAN
         /\ run.tries \in 0 .. 1 /\ run.evals \in [Cases -> Evaluations]
         /\ \A c \in Cases : source[c] \in Evaluations /\ results[c] \in Results
BY DEF GateInv, GateTyped, Runs

LEMMA HereIsACase == ASSUME GateInv, Here PROVE run.at \in Cases /\ run.at + 1 \in 1 .. (CaseCount + 1)
BY RunFacts, GateConstants DEF Here, Cases

\* A step of an invocation that leaves everything else alone.
RestStays ==
  UNCHANGED <<step, review, book, results, source, groups, remaining, statuses, reserved,
              head, combined>>

LEMMA RestIsTyped ==
  ASSUME GateInv, RestStays, step = "evaluate", run' \in Runs,
         sent' \in [{"gate", "resume"} -> Nat]
  PROVE  GateTyped' /\ Concluded' /\ ReportIsHonest' /\ CombinedPassIsEarned'
<1>1. GateTyped'
  BY DEF GateInv, GateTyped, RestStays
<1>2. combined # "pass" /\ combined' # "pass"
  BY DEF GateInv, Concluded, RestStays
<1>3. step' = "evaluate"
  BY DEF RestStays
<1>4. ReportIsHonest'
  BY <1>3 DEF ReportIsHonest
<1>5. Concluded' /\ CombinedPassIsEarned'
  BY <1>2 DEF Concluded, CombinedPassIsEarned
<1> QED
  BY <1>1, <1>4, <1>5

\* The attempts that were sent, as far as the step counted them.
SentKept ==
  /\ sent' \in [{"gate", "resume"} -> Nat]
  /\ sent'.gate <= JudgeLimit /\ sent'.resume <= JudgeLimit
  /\ ~reserved => sent'.resume = 0
  /\ InGate => /\ sent'.gate <= run'.calls
               /\ run'.calls <= run.limit => sent'.gate = run'.calls
  /\ InResume => sent'.resume <= JudgeLimit - remaining + run'.calls

LEMMA SpentStays ==
  ASSUME GateInv, RestStays, step = "evaluate", run'.mode = run.mode,
         run'.limit = run.limit, SentKept
  PROVE  Spent'
BY DEF GateInv, Spent, RestStays, SentKept, InGate, InResume

\* A case is settled.
LEMMA SettledKeeps ==
  ASSUME GateInv, Here, RestStays, NEW e, Settled(e, results[run.at]),
         run' \in Runs, run'.mode = run.mode, run'.limit = run.limit,
         run'.at = NextCase(run.mode, run.at + 1),
         run'.calls <= run.limit + run.at,
         run'.evals = [run.evals EXCEPT ![run.at] = e], SentKept
  PROVE  GateInv'
<1>1. step = "evaluate" /\ step' = "evaluate" /\ run.at \in Cases
  BY HereIsACase DEF Here, RestStays
<1>2. GateTyped' /\ Concluded' /\ ReportIsHonest' /\ CombinedPassIsEarned' /\ Spent'
  BY <1>1, RestIsTyped, SpentStays DEF SentKept
<1>3. run'.at \in (run.at + 1) .. (CaseCount + 1)
  BY HereIsACase, NextCaseTyped
<1>4. CallsBounded'
  <2>1. run.at \in Nat /\ run.limit \in Nat /\ run'.calls \in Nat /\ CaseCount \in Nat
    BY <1>2, RunFacts, GateConstants DEF GateTyped, Runs
  <2> QED
    BY <1>3, <2>1 DEF CallsBounded
<1>5. Placed' /\ Planned'
  BY <1>1 DEF GateInv, Placed, Planned, RestStays, InGate, InResume
<1>6. Graded'
  <2>1. \A c \in Cases : run'.evals[c] = IF c = run.at THEN e ELSE run.evals[c]
    BY RunFacts
  <2>2. results' = results /\ source' = source
    BY DEF RestStays
  <2>3. ASSUME NEW c \in Cases
        PROVE  /\ Earned(run'.evals[c], results'[c]) /\ Deserved(run'.evals[c], results'[c])
               /\ Earned(source'[c], results'[c])
    BY <2>1, <2>2 DEF GateInv, Graded, Settled
  <2>4. ASSUME InGate', NEW c \in Cases, c < run'.at PROVE run'.evals[c].decision # "none"
    <3>1. InGate /\ run.mode = "gate"
      BY <1>1, <2>4 DEF InGate
    <3>2. run'.at = run.at + 1
      BY <3>1, HereIsACase, NextCaseOfGate
    <3>3. c = run.at \/ c < run.at
      BY <2>4, <3>2, HereIsACase, GateConstants DEF Cases
    <3> QED
      BY <2>1, <3>1, <3>3 DEF GateInv, Graded, Settled
  <2> QED
    BY <2>3, <2>4 DEF Graded
<1> QED
  BY <1>2, <1>4, <1>5, <1>6 DEF GateInv

\* A case is asked about once more.
LEMMA WaitingKeeps ==
  ASSUME GateInv, Here, RestStays,
         run' \in Runs, run'.mode = run.mode, run'.limit = run.limit, run'.at = run.at,
         run'.calls <= run.limit, run'.evals = run.evals, SentKept
  PROVE  GateInv'
<1>1. step = "evaluate" /\ step' = "evaluate"
  BY DEF Here, RestStays
<1>2. GateTyped' /\ Concluded' /\ ReportIsHonest' /\ CombinedPassIsEarned' /\ Spent'
  BY <1>1, RestIsTyped, SpentStays DEF SentKept
<1>3. CallsBounded'
  BY <1>2, RunFacts, GateConstants DEF CallsBounded, GateTyped, Runs
<1>4. Placed' /\ Planned' /\ Graded'
  BY <1>1 DEF GateInv, Placed, Planned, Graded, RestStays, InGate, InResume
<1> QED
  BY <1>2, <1>3, <1>4 DEF GateInv

LEMMA UnsentKept ==
  ASSUME GateInv, Here, UNCHANGED sent, run'.calls = run.calls PROVE SentKept
BY DEF GateInv, GateTyped, Spent, SentKept

LEMMA SettleKeeps ==
  ASSUME GateInv, Here, RestStays, UNCHANGED sent, NEW e, Settled(e, results[run.at]),
         Settle(e)
  PROVE  GateInv'
<1> DEFINE m == NextCase(run.mode, run.at + 1)
           n == Settling(run, run.at, e, m)
<1>1. run' = n
  BY DEF Settle, Settling
<1>2. m \in 1 .. (CaseCount + 1)
  BY HereIsACase, NextCaseTyped, GateConstants DEF Cases
<1>3. /\ n \in Runs /\ n.mode = run.mode /\ n.limit = run.limit /\ n.calls = run.calls
      /\ n.at = m /\ n.evals = [run.evals EXCEPT ![run.at] = e]
  <2>1. run \in Runs /\ run.at \in Cases /\ e \in Evaluations
    BY RunFacts, HereIsACase DEF Settled
  <2> HIDE DEF m
  <2> QED
    BY <1>2, <2>1, SettledFields
<1> HIDE DEF n
<1>4. SentKept
  BY <1>1, <1>3, UnsentKept
<1>5. run.calls <= run.limit + run.at
  BY RunFacts, GateConstants DEF GateInv, CallsBounded
<1> QED
  BY <1>1, <1>3, <1>4, <1>5, SettledKeeps

LEMMA DecideDeterministicKeeps == ASSUME GateInv, DecideDeterministic PROVE GateInv'
<1>1. Here /\ RestStays /\ UNCHANGED sent /\ results[run.at] # "passed"
  BY DEF DecideDeterministic, ResumeAlone, RestStays
<1>2. results[run.at] \in Results
  BY <1>1, HereIsACase, RunFacts
<1> DEFINE e == Evaluation(Deterministic(results[run.at]), "browser", 0, FALSE, 0)
<1>3. Settled(e, results[run.at])
  BY <1>1, <1>2, DeterministicSound
<1>4. Settle(e)
  BY DEF DecideDeterministic
<1> HIDE DEF e
<1> QED
  BY <1>1, <1>3, <1>4, SettleKeeps

LEMMA DecideUnreportedKeeps == ASSUME GateInv, DecideUnreported PROVE GateInv'
<1>1. Here /\ RestStays /\ UNCHANGED sent
  BY DEF DecideUnreported, ResumeAlone, RestStays
<1> DEFINE e == Evaluation("infrastructure", "telemetry", 0, FALSE, 0)
<1>2. Settled(e, results[run.at])
  <2>1. "telemetry" \in Reasons /\ 0 \in 0 .. 2
    BY DEF Reasons
  <2> QED
    BY <2>1, InfrastructureSound
<1>3. Settle(e)
  BY DEF DecideUnreported
<1> HIDE DEF e
<1> QED
  BY <1>1, <1>2, <1>3, SettleKeeps

LEMMA OverBudgetKeeps == ASSUME GateInv, OverBudget PROVE GateInv'
<1>1. Here /\ RestStays /\ UNCHANGED sent /\ run.calls >= run.limit
  BY DEF OverBudget, Asks, ResumeAlone, RestStays
<1> DEFINE e == JudgeFailed("budget")
           k == [run EXCEPT !.calls = @ + 1]
           m == NextCase(run.mode, run.at + 1)
           n == Settling(k, run.at, e, m)
<1>2. Settled(e, results[run.at])
  <2>1. "budget" \in Reasons
    BY DEF Reasons
  <2> QED
    BY <2>1, JudgeFailedSound
<1>3. /\ k \in Runs /\ k.mode = run.mode /\ k.limit = run.limit /\ k.calls = run.calls + 1
      /\ k.at = run.at /\ k.evals = run.evals
  BY RunFacts, CountedFields
<1>4. m \in 1 .. (CaseCount + 1)
  BY <1>1, HereIsACase, NextCaseTyped, GateConstants DEF Cases
<1>5. run' = n
  BY RunFacts DEF OverBudget, Runs, Settling
<1> HIDE DEF k, e
<1>6. /\ n \in Runs /\ n.mode = k.mode /\ n.limit = k.limit /\ n.calls = k.calls
      /\ n.at = m /\ n.evals = [k.evals EXCEPT ![run.at] = e]
  <2>1. run.at \in Cases /\ e \in Evaluations
    BY <1>1, <1>2, HereIsACase DEF Settled
  <2> HIDE DEF m
  <2> QED
    BY <1>3, <1>4, <2>1, SettledFields
<1> HIDE DEF n, m
<1>7. SentKept
  <2>1. /\ sent'.gate = sent.gate /\ sent'.resume = sent.resume /\ run'.calls = run.calls + 1
        /\ run.calls \in Nat /\ run.limit \in Nat /\ run.calls >= run.limit
    BY <1>1, <1>3, <1>5, <1>6, RunFacts
  <2>2. sent' \in [{"gate", "resume"} -> Nat] /\ sent'.gate \in Nat /\ sent'.resume \in Nat
    BY <1>1 DEF GateInv, GateTyped
  <2>3. remaining \in Nat /\ JudgeLimit \in Nat
    BY GateConstants DEF GateInv, GateTyped
  <2> QED
    BY <2>1, <2>2, <2>3 DEF GateInv, Spent, SentKept
<1>8. run'.calls <= run.limit + run.at
  BY <1>3, <1>5, <1>6, RunFacts, GateConstants DEF GateInv, CallsBounded
<1>9. m = NextCase(run.mode, run.at + 1)
  BY DEF m
<1> QED
  BY <1>1, <1>2, <1>3, <1>5, <1>6, <1>7, <1>8, <1>9, SettledKeeps

\* An attempt that is sent is within the limit, and counted where it belongs.
LEMMA AttemptCounted ==
  ASSUME GateInv, Here, run.calls < run.limit, run'.calls = run.calls + 1,
         sent' = [sent EXCEPT ![IF run.mode = "gate" THEN "gate" ELSE "resume"] = @ + 1]
  PROVE  SentKept
<1>1. /\ run.calls \in Nat /\ run.limit \in Nat /\ JudgeLimit \in Nat /\ remaining \in Nat
      /\ run.limit <= JudgeLimit /\ remaining <= JudgeLimit
  BY RunFacts, GateConstants DEF GateInv, GateTyped
<1>2. sent \in [{"gate", "resume"} -> Nat] /\ sent.gate \in Nat /\ sent.resume \in Nat
  BY DEF GateInv, GateTyped
<1>3. CASE run.mode = "gate"
  <2>1. sent' = [sent EXCEPT !["gate"] = @ + 1]
    BY <1>3
  <2>2. /\ sent' \in [{"gate", "resume"} -> Nat] /\ sent'.gate = sent.gate + 1
        /\ sent'.resume = sent.resume
    BY <1>2, <2>1
  <2>3. InGate /\ ~InResume
    BY <1>3 DEF Here, InGate, InResume
  <2>4. sent.gate = run.calls /\ run.limit = JudgeLimit
    BY <1>1, <1>2, <2>3 DEF GateInv, Spent
  <2> QED
    BY <1>1, <1>2, <2>2, <2>3, <2>4 DEF GateInv, Spent, SentKept
<1>4. CASE run.mode # "gate"
  <2>1. sent' = [sent EXCEPT !["resume"] = @ + 1]
    BY <1>4
  <2>2. /\ sent' \in [{"gate", "resume"} -> Nat] /\ sent'.gate = sent.gate
        /\ sent'.resume = sent.resume + 1
    BY <1>2, <2>1
  <2>3. ~InGate /\ InResume
    BY <1>4 DEF Here, InGate, InResume
  <2>4. /\ run.limit = remaining /\ sent.resume <= JudgeLimit - remaining + run.calls
        /\ reserved
    BY <2>3 DEF GateInv, Spent, Placed
  <2>5. sent'.resume <= JudgeLimit
    BY <1>1, <1>2, <2>2, <2>4
  <2>6. sent'.resume <= JudgeLimit - remaining + run'.calls
    BY <1>1, <1>2, <2>2, <2>4
  <2> QED
    BY <2>2, <2>3, <2>4, <2>5, <2>6 DEF GateInv, Spent, SentKept
<1> QED
  BY <1>3, <1>4

\* A settled case of an attempt that was counted.
LEMMA CountedSettleKeeps ==
  ASSUME GateInv, Here, RestStays, SentKept, NEW e, Settled(e, results[run.at]),
         run.calls < run.limit,
         run' = Settling([run EXCEPT !.calls = @ + 1], run.at, e,
                         NextCase(run.mode, run.at + 1))
  PROVE  GateInv'
<1> DEFINE k == [run EXCEPT !.calls = @ + 1]
           m == NextCase(run.mode, run.at + 1)
           n == Settling(k, run.at, e, m)
<1>1. /\ k \in Runs /\ k.mode = run.mode /\ k.limit = run.limit /\ k.calls = run.calls + 1
      /\ k.at = run.at /\ k.evals = run.evals
  BY RunFacts, CountedFields
<1>2. m \in 1 .. (CaseCount + 1)
  BY HereIsACase, NextCaseTyped, GateConstants DEF Cases
<1>3. run' = n
  OBVIOUS
<1> HIDE DEF k
<1>4. /\ n \in Runs /\ n.mode = k.mode /\ n.limit = k.limit /\ n.calls = k.calls
      /\ n.at = m /\ n.evals = [k.evals EXCEPT ![run.at] = e]
  <2>1. run.at \in Cases /\ e \in Evaluations
    BY HereIsACase DEF Settled
  <2> HIDE DEF m
  <2> QED
    BY <1>1, <1>2, <2>1, SettledFields
<1> HIDE DEF n
<1>5. run'.calls <= run.limit + run.at
  BY <1>1, <1>3, <1>4, RunFacts, GateConstants DEF GateInv, CallsBounded
<1> QED
  BY <1>1, <1>3, <1>4, <1>5, SettledKeeps

LEMMA AttemptKeeps == ASSUME GateInv, Attempt PROVE GateInv'
<1> DEFINE k == [run EXCEPT !.calls = @ + 1]
           m == NextCase(run.mode, run.at + 1)
<1>1. /\ Here /\ RestStays /\ run.calls < run.limit /\ results[run.at] = "passed"
      /\ sent' = [sent EXCEPT ![IF run.mode = "gate" THEN "gate" ELSE "resume"] = @ + 1]
  BY ZenonT(40) DEF Attempt, Asks, ResumeAlone, RestStays
<1>2. /\ k \in Runs /\ k.mode = run.mode /\ k.limit = run.limit /\ k.calls = run.calls + 1
      /\ k.at = run.at /\ k.evals = run.evals
  BY RunFacts, CountedFields
<1>3. ASSUME NEW e, Settled(e, results[run.at]), run' = Settling(k, run.at, e, m)
      PROVE  GateInv'
  <2>1. m \in 1 .. (CaseCount + 1) /\ run.at \in Cases /\ e \in Evaluations
    BY <1>1, <1>3, HereIsACase, NextCaseTyped, GateConstants DEF Settled, Cases
  <2>2. run'.calls = run.calls + 1
    <3> HIDE DEF k, m
    <3> DEFINE n == Settling(k, run.at, e, m)
    <3>1. /\ n \in Runs /\ n.mode = k.mode /\ n.limit = k.limit /\ n.calls = k.calls
          /\ n.at = m /\ n.evals = [k.evals EXCEPT ![run.at] = e]
      BY <1>2, <2>1, SettledFields
    <3> QED
      BY <1>2, <1>3, <3>1
  <2>3. SentKept
    BY <1>1, <2>2, AttemptCounted
  <2> QED
    BY <1>1, <1>3, <2>3, CountedSettleKeeps
<1>4. ASSUME NEW first \in BOOLEAN, NEW tries \in 0 .. 1,
             run' = [k EXCEPT !.first = first, !.tries = tries]
      PROVE  GateInv'
  <2> HIDE DEF k
  <2>1. /\ run' \in Runs /\ run'.mode = run.mode /\ run'.limit = run.limit
        /\ run'.at = run.at /\ run'.calls = run.calls + 1 /\ run'.evals = run.evals
    <3> DEFINE n == AskedAgain(k, first, tries)
    <3>1. /\ n \in Runs /\ n.mode = k.mode /\ n.limit = k.limit /\ n.calls = k.calls
          /\ n.at = k.at /\ n.evals = k.evals
      <4>1. k \in Runs /\ first \in BOOLEAN /\ tries \in 0 .. 1
        BY <1>2, <1>4
      <4> QED
        BY <4>1, WaitingFields
    <3>2. run' = n
      BY <1>4 DEF AskedAgain
    <3> HIDE DEF n
    <3> QED
      BY <1>2, <3>1, <3>2
  <2>2. SentKept
    BY <1>1, <2>1, AttemptCounted
  <2>3. run'.calls <= run.limit
    BY <1>1, <2>1, RunFacts
  <2> QED
    BY <1>1, <2>1, <2>2, <2>3, WaitingKeeps
<1>5. ASSUME NEW j \in Judgments,
             run' = IF ~run.first /\ NeedsSecond(j)
                    THEN [k EXCEPT !.first = TRUE, !.tries = 0]
                    ELSE Settling(k, run.at, Judged(j), m)
      PROVE  GateInv'
  <2>1. CASE ~run.first /\ NeedsSecond(j)
    <3>1. run' = [k EXCEPT !.first = TRUE, !.tries = 0]
      BY <1>5, <2>1
    <3>2. TRUE \in BOOLEAN /\ 0 \in 0 .. 1
      OBVIOUS
    <3> HIDE DEF k, m
    <3> QED
      BY <1>4, <3>1, <3>2
  <2>2. CASE ~(~run.first /\ NeedsSecond(j))
    <3>1. Settled(Judged(j), results[run.at])
      BY <1>1, <2>2, RunFacts, JudgedSound
    <3> QED
      BY <1>3, <1>5, <2>2, <3>1
  <2> QED
    BY <2>1, <2>2
<1>6. ASSUME NEW reason \in Reasons, run' = Settling(k, run.at, JudgeFailed(reason), m)
      PROVE  GateInv'
  <2>1. Settled(JudgeFailed(reason), results[run.at])
    BY JudgeFailedSound
  <2> QED
    BY <1>3, <1>6, <2>1
<1>7. ASSUME run' = [k EXCEPT !.tries = 1] PROVE GateInv'
  <2>1. run' = [k EXCEPT !.first = run.first, !.tries = 1]
    BY <1>7, RunFacts DEF Runs
  <2>2. run.first \in BOOLEAN /\ 1 \in 0 .. 1
    BY RunFacts
  <2> HIDE DEF k
  <2> QED
    BY <1>4, <2>1, <2>2
<1>8. \/ \E j \in Judgments :
           run' = IF ~run.first /\ NeedsSecond(j)
                  THEN [k EXCEPT !.first = TRUE, !.tries = 0]
                  ELSE Settling(k, run.at, Judged(j), m)
      \/ run' = [k EXCEPT !.tries = 1]
      \/ \E reason \in {"outage", "provider", "wrong"} :
           run' = Settling(k, run.at, JudgeFailed(reason), m)
  BY DEF Attempt, Settling
<1>9. {"outage", "provider", "wrong"} \subseteq Reasons
  BY DEF Reasons
<1> HIDE DEF k, m
<1> QED
  BY <1>5, <1>6, <1>7, <1>8, <1>9

(***************************************************************************)
(* The steps between the invocations.                                      *)
(***************************************************************************)

\* An invocation that is given up leaves nothing behind it.
LEMMA EmptySound ==
  ASSUME NEW n, Empty(n), NEW r
  PROVE  \A c \in Cases : Earned(n.evals[c], r) /\ Deserved(n.evals[c], r)
<1>1. \A c \in Cases : n.evals[c].decision = "none"
  BY UnjudgedTyped DEF Empty
<1> QED
  BY <1>1 DEF Earned, Deserved, Kept

LEMMA CaptureKeeps == ASSUME GateInv, Capture PROVE GateInv'
<1>1. /\ step = "capture" /\ step' = "start" /\ results' \in [Cases -> Results]
      /\ book' \in Books /\ run' = run /\ sent' = sent /\ source' = source
      /\ groups' = groups /\ remaining' = remaining /\ statuses' = statuses
      /\ reserved' = reserved /\ head' = head /\ combined' = combined
  BY DEF Capture, ResumeAlone
<1>2. GateTyped' /\ CallsBounded'
  BY <1>1 DEF GateInv, GateTyped, CallsBounded
<1>3. Empty(run) /\ \A c \in Cases : source[c].decision = "none"
  BY <1>1 DEF GateInv, Placed
<1>4. Placed'
  <2>1. statuses' = {} /\ ~reserved' /\ Empty(run')
    BY <1>1, <1>3 DEF GateInv, Placed
  <2> QED
    BY <1>1, <2>1 DEF Placed, InGate, InResume
<1>5. Graded'
  <2>1. \A c \in Cases : /\ Earned(run'.evals[c], results'[c])
                         /\ Deserved(run'.evals[c], results'[c])
    BY <1>1, <1>3, EmptySound
  <2>2. \A c \in Cases : Earned(source'[c], results'[c])
    BY <1>1, <1>3 DEF Earned, Kept
  <2> QED
    BY <1>1, <2>1, <2>2 DEF Graded, InGate
<1>6. Planned' /\ Spent' /\ Concluded' /\ ReportIsHonest' /\ CombinedPassIsEarned'
  BY <1>1 DEF GateInv, Planned, Spent, Concluded, ReportIsHonest, CombinedPassIsEarned,
              InGate, InResume
<1> QED
  BY <1>2, <1>4, <1>5, <1>6 DEF GateInv

\* An invocation is given up: what remains of the invariant.
LEMMA AbortKeeps ==
  ASSUME GateInv, run' = NoRun,
         \/ (step = "start" \/ InGate) /\ step' = "reported" /\ statuses' = {}
         \/ (step = "judge" \/ InResume) /\ step' = "judge" /\ reserved',
         UNCHANGED <<results, source, groups, head, combined>>,
         reserved' \in BOOLEAN, remaining' \in 0 .. JudgeLimit,
         ~reserved' => sent.resume = 0, UNCHANGED sent
  PROVE  GateInv'
<1>1. GateTyped'
  BY NoRunTyped DEF GateInv, GateTyped
<1>2. CallsBounded'
  BY NoRunTyped, GateConstants DEF CallsBounded
<1>3. step' \in {"reported", "judge"} /\ combined # "pass"
  BY DEF GateInv, Concluded, InGate, InResume
<1>4. Placed' /\ Planned'
  BY <1>3 DEF GateInv, Placed, Planned, InGate, InResume
<1>5. Graded'
  <2>1. Empty(run')
    BY NoRunTyped DEF Empty
  <2>2. \A c \in Cases : /\ Earned(run'.evals[c], results'[c])
                         /\ Deserved(run'.evals[c], results'[c])
    BY <2>1, EmptySound
  <2> QED
    BY <1>3, <2>2 DEF GateInv, Graded, InGate
<1>6. Spent'
  BY <1>3 DEF GateInv, Spent, InGate, InResume
<1>7. Concluded' /\ ReportIsHonest' /\ CombinedPassIsEarned'
  BY <1>3 DEF Concluded, ReportIsHonest, CombinedPassIsEarned
<1> QED
  BY <1>1, <1>2, <1>4, <1>5, <1>6, <1>7 DEF GateInv

LEMMA SuiteTimeoutKeeps == ASSUME GateInv, SuiteTimeout PROVE GateInv'
<1>1. /\ step = "evaluate" /\ run' = NoRun
      /\ step' = IF run.mode = "gate" THEN "reported" ELSE "judge"
      /\ UNCHANGED <<results, source, groups, remaining, statuses, reserved, head, combined,
                     sent>>
  BY DEF SuiteTimeout, Abort, ResumeAlone, Asks, Here
<1>2. GateTyped /\ Placed /\ Spent
  BY DEF GateInv
<1>3. reserved' \in BOOLEAN /\ remaining' \in 0 .. JudgeLimit /\ (~reserved' => sent.resume = 0)
  BY <1>1, <1>2 DEF GateTyped, Spent
<1>4. CASE run.mode = "gate"
  <2>1. InGate /\ statuses = {} /\ step' = "reported"
    BY <1>1, <1>2, <1>4 DEF InGate, Placed
  <2> QED
    BY <1>1, <1>3, <1>4, <2>1, AbortKeeps
<1>5. CASE run.mode # "gate"
  <2>1. InResume /\ reserved /\ step' = "judge"
    BY <1>1, <1>2, <1>5 DEF InResume, Placed
  <2> QED
    BY <1>1, <1>3, <1>5, <2>1, AbortKeeps
<1> QED
  BY <1>4, <1>5

\* An invocation begins.
LEMMA BeginsTyped ==
  ASSUME GateInv, NEW mode \in Modes, NEW limit \in 0 .. JudgeLimit, NEW cost \in Policies,
         run' = NewRun(mode, limit, cost), step' = "evaluate", combined # "pass",
         UNCHANGED <<results, groups, head, combined, sent>>,
         source' \in [Cases -> Evaluations],
         \A c \in Cases : Earned(source'[c], results[c]),
         reserved' \in BOOLEAN, remaining' \in 0 .. JudgeLimit
  PROVE  /\ GateTyped' /\ CallsBounded' /\ Graded' /\ Concluded' /\ ReportIsHonest'
         /\ CombinedPassIsEarned'
         /\ run'.mode = mode /\ run'.limit = limit /\ run'.calls = 0
<1> DEFINE n == NewRun(mode, limit, cost)
<1>1. /\ n \in Runs /\ n.mode = mode /\ n.limit = limit /\ n.calls = 0
      /\ n.at = NextCase(mode, 1) /\ \A c \in Cases : n.evals[c] = Unjudged
  BY NewRunTyped
<1>2. run' = n
  OBVIOUS
<1> HIDE DEF n
<1>3. 1 \in 1 .. (CaseCount + 1)
  BY GateConstants
<1>4. GateTyped'
  BY <1>1, <1>2 DEF GateInv, GateTyped
<1>5. CallsBounded'
  <2>1. n.at \in 1 .. (CaseCount + 1)
    BY <1>1, <1>3, NextCaseTyped
  <2> QED
    BY <1>1, <1>2, <2>1, GateConstants DEF CallsBounded
<1>6. Graded'
  <2>1. \A c \in Cases : run'.evals[c].decision = "none"
    BY <1>1, <1>2, UnjudgedTyped
  <2>2. \A c \in Cases : /\ Earned(run'.evals[c], results'[c])
                         /\ Deserved(run'.evals[c], results'[c])
                         /\ Earned(source'[c], results'[c])
    BY <2>1 DEF Earned, Deserved, Kept
  <2>3. InGate' => run'.at = 1
    BY <1>1, <1>2, <1>3, NextCaseOfGate DEF InGate
  <2>4. InGate' => \A c \in Cases : ~(c < run'.at)
    BY <2>3, GateConstants DEF Cases
  <2> QED
    BY <2>2, <2>4 DEF Graded
<1>7. Concluded' /\ ReportIsHonest' /\ CombinedPassIsEarned'
  BY DEF Concluded, ReportIsHonest, CombinedPassIsEarned
<1> QED
  BY <1>1, <1>2, <1>4, <1>5, <1>6, <1>7

LEMMA StartKeeps == ASSUME GateInv, Start PROVE GateInv'
<1>1. /\ step = "start"
      /\ UNCHANGED <<results, sent, review, source, groups, remaining, statuses, reserved,
                     head, combined>>
  BY DEF Start, ResumeAlone
<1>2. /\ statuses = {} /\ ~reserved /\ Empty(run) /\ sent.gate = 0 /\ sent.resume = 0
      /\ combined # "pass"
  BY <1>1 DEF GateInv, Placed, Spent, Concluded
<1>3. /\ reserved' \in BOOLEAN /\ remaining' \in 0 .. JudgeLimit
      /\ source' \in [Cases -> Evaluations]
      /\ \A c \in Cases : Earned(source'[c], results[c])
  BY <1>1 DEF GateInv, GateTyped, Graded
<1>4. CASE book.calls > ApplicationLimit
  <2>1. run' = NoRun /\ step' = "reported" /\ run.mode = "gate"
    BY <1>2, <1>4 DEF Start, Abort, Empty
  <2> QED
    BY <1>1, <1>2, <1>3, <2>1, AbortKeeps
<1>5. CASE ~(book.calls > ApplicationLimit)
  <2> DEFINE cost == CostPolicy(book.cost, CostBlocks, SuiteLimit)
  <2>1. run' = NewRun("gate", JudgeLimit, cost) /\ step' = "evaluate"
    BY <1>5 DEF Start
  <2>2. cost \in Policies
    BY CostPolicyTyped
  <2>3. "gate" \in Modes /\ JudgeLimit \in 0 .. JudgeLimit
    BY GateConstants DEF Modes
  <2> HIDE DEF cost
  <2>4. /\ GateTyped' /\ CallsBounded' /\ Graded' /\ Concluded' /\ ReportIsHonest'
        /\ CombinedPassIsEarned'
        /\ run'.mode = "gate" /\ run'.limit = JudgeLimit /\ run'.calls = 0
    BY <1>1, <1>2, <1>3, <2>1, <2>2, <2>3, BeginsTyped
  <2>5. Placed' /\ Planned'
    BY <1>1, <1>2, <2>1, <2>4 DEF Placed, Planned, InGate, InResume
  <2>6. Spent'
    BY <1>1, <1>2, <2>1, <2>4, GateConstants DEF GateInv, Spent, InGate, InResume
  <2> QED
    BY <2>4, <2>5, <2>6 DEF GateInv
<1> QED
  BY <1>4, <1>5

\* The gate's report covers every case.
LEMMA ReportStatusOfGate ==
  ASSUME run.mode = "gate"
  PROVE  /\ (\E c \in Cases : run.evals[c].decision = "fail") => ReportStatus = "fail"
         /\ ReportStatus = "pass" =>
              /\ \A c \in Cases : run.evals[c].decision \notin {"fail", "infrastructure",
                                                                "manual_review"}
              /\ ~book.missing /\ run.cost.status # "infrastructure"
<1> DEFINE decided == {run.evals[c].decision : c \in {d \in Cases : Included(run.mode, d)}}
           priced == IF run.mode = "replay" THEN {}
                     ELSE IF NoTelemetry \/ run.cost.status = "infrastructure"
                     THEN {"infrastructure"}
                     ELSE IF run.cost.blocks THEN {"fail"} ELSE {}
<1>1. ReportStatus = ExitStatus(decided \cup priced)
  BY DEF ReportStatus
<1>2. \A c \in Cases : run.evals[c].decision \in decided
  BY DEF Included
<1>3. book.missing \/ run.cost.status = "infrastructure" => "infrastructure" \in priced
  BY DEF NoTelemetry
<1> HIDE DEF decided, priced
<1>4. /\ "fail" \in decided \cup priced => ExitStatus(decided \cup priced) = "fail"
      /\ ExitStatus(decided \cup priced) = "pass" =>
           /\ "fail" \notin decided \cup priced /\ "infrastructure" \notin decided \cup priced
           /\ "manual_review" \notin decided \cup priced
  BY ExitStatusFacts
<1> QED
  BY <1>1, <1>2, <1>3, <1>4

LEMMA ReportKeeps == ASSUME GateInv, Report PROVE GateInv'
<1>1. /\ step = "evaluate" /\ run.mode = "gate" /\ run.at > CaseCount /\ step' = "reported"
      /\ source' = run.evals /\ statuses' = {ReportStatus}
      /\ UNCHANGED <<review, book, results, run, groups, remaining, reserved, head, combined,
                     sent>>
  BY DEF Report, Done
<1>2. InGate /\ \A c \in Cases : run.evals[c].decision # "none"
  <2>1. InGate
    BY <1>1 DEF InGate
  <2>2. \A c \in Cases : c < run.at
    BY <1>1, RunFacts, GateConstants DEF Cases
  <2> QED
    BY <2>1, <2>2 DEF GateInv, Graded
<1>3. GateTyped' /\ CallsBounded'
  BY <1>1, RunFacts DEF GateInv, GateTyped, CallsBounded
<1>4. Placed' /\ Planned' /\ Spent'
  BY <1>1, <1>2 DEF GateInv, Placed, Planned, Spent, InGate, InResume
<1>5. Graded'
  BY <1>1 DEF GateInv, Graded, InGate
<1>6. combined # "pass"
  BY <1>1 DEF GateInv, Concluded
<1>7. ReportIsHonest'
  <2>1. \A c \in Cases : source'[c].decision \in Decisions /\ source'[c].decision # "none"
    BY <1>1, <1>2, RunFacts DEF Evaluations
  <2>2. /\ (\E c \in Cases : source'[c].decision = "fail") => statuses' = {"fail"}
        /\ statuses' = {"pass"} =>
             /\ \A c \in Cases : source'[c].decision \notin {"fail", "infrastructure",
                                                             "manual_review"}
             /\ ~book'.missing /\ run'.cost.status # "infrastructure"
    BY <1>1, ReportStatusOfGate
  <2> DEFINE decisions == {source'[c].decision : c \in Cases}
  <2>3. "fail" \in decisions => statuses' = {"fail"}
    BY <2>2
  <2>4. statuses' = {"pass"} => decisions = {"pass"}
    <3>1. 1 \in Cases
      BY GateConstants DEF Cases
    <3> QED
      BY <2>1, <2>2, <3>1 DEF Decisions
  <2> QED
    BY <2>2, <2>3, <2>4 DEF ReportIsHonest
<1>8. Concluded' /\ CombinedPassIsEarned'
  BY <1>1, <1>6 DEF Concluded, CombinedPassIsEarned
<1> QED
  BY <1>3, <1>4, <1>5, <1>7, <1>8 DEF GateInv

(***************************************************************************)
(* The resume.                                                             *)
(***************************************************************************)

\* What is run again on the candidate was not kept.
LEMMA GroupTyped ==
  ASSUME GateInv, NEW c \in Cases
  PROVE  /\ GroupOf(c) \in {"none", "fresh", "replay", "carried"}
         /\ GroupOf(c) = "fresh" => source[c].decision \notin Kept
<1>1. source[c] \in Evaluations /\ Earned(source[c], results[c])
  BY DEF GateInv, GateTyped, Graded
<1>2. source[c].decision \in Decisions
  BY <1>1 DEF Evaluations
<1>3. CASE results[c] # "passed"
  BY <1>1, <1>3 DEF GroupOf, Earned
<1>4. CASE results[c] = "passed"
  BY <1>2, <1>4 DEF GroupOf, Decisions, Kept
<1> QED
  BY <1>3, <1>4

LEMMA PrepareKeeps == ASSUME GateInv, Prepare PROVE GateInv'
<1>1. /\ step = "reported" /\ run' = NoRun /\ statuses' = {}
      /\ UNCHANGED <<review, book, results, source, remaining, reserved, head, combined, sent>>
      /\ \/ /\ Preparable /\ step' = "freshCapture"
            /\ groups' = [c \in Cases |-> GroupOf(c)]
         \/ step' = "ended" /\ groups' = groups
  BY DEF Prepare
<1>2. combined # "pass"
  BY <1>1 DEF GateInv, Concluded
<1>3. Empty(run') /\ run' \in Runs
  BY <1>1, NoRunTyped DEF Empty
<1>4. groups' \in [Cases -> {"none", "fresh", "replay", "carried"}]
  BY <1>1, GroupTyped DEF GateInv, GateTyped
<1>5. GateTyped'
  BY <1>1, <1>3, <1>4 DEF GateInv, GateTyped
<1>6. CallsBounded'
  BY <1>1, NoRunTyped, GateConstants DEF CallsBounded
<1>7. Placed' /\ Spent'
  BY <1>1, <1>3 DEF GateInv, Placed, Spent, InGate, InResume
<1>8. Graded'
  <2>1. \A c \in Cases : /\ Earned(run'.evals[c], results'[c])
                         /\ Deserved(run'.evals[c], results'[c])
    BY <1>3, EmptySound
  <2> QED
    BY <1>1, <2>1 DEF GateInv, Graded, InGate
<1>9. Planned'
  <2>1. CASE step' = "ended"
    BY <2>1 DEF Planned, InResume
  <2>2. CASE Preparable /\ step' = "freshCapture" /\ groups' = [c \in Cases |-> GroupOf(c)]
    <3>1. \A c \in Cases : groups'[c] = GroupOf(c) /\ source'[c] = source[c]
      BY <1>1, <2>2
    <3>2. \A c \in Cases : groups'[c] # "none"
      BY <2>2, <3>1 DEF Preparable
    <3>3. \E c \in Cases : groups'[c] = "fresh"
      BY <2>2, <3>1 DEF Preparable
    <3>4. \A c \in Cases : groups'[c] = "fresh" => source'[c].decision \notin Kept
      BY <3>1, GroupTyped
    <3> QED
      BY <3>2, <3>3, <3>4 DEF Planned
  <2> QED
    BY <1>1, <2>1, <2>2
<1>10. Concluded' /\ ReportIsHonest' /\ CombinedPassIsEarned'
  BY <1>1, <1>2 DEF Concluded, ReportIsHonest, CombinedPassIsEarned
<1> QED
  BY <1>5, <1>6, <1>7, <1>8, <1>9, <1>10 DEF GateInv

LEMMA FreshCaptureKeeps == ASSUME GateInv, FreshCapture PROVE GateInv'
<1>1. /\ step = "freshCapture"
      /\ UNCHANGED <<review, run, source, groups, remaining, statuses, reserved, head,
                     combined, sent>>
      /\ \/ /\ step' = "judge"
            /\ \E r \in [Cases -> Results] :
                  results' = [c \in Cases |-> IF groups[c] = "fresh" THEN r[c]
                                              ELSE results[c]]
         \/ step' = "ended" /\ results' = results
  BY DEF FreshCapture
<1>2. Empty(run) /\ combined # "pass"
  BY <1>1 DEF GateInv, Placed, Concluded
<1>3. /\ results' \in [Cases -> Results]
      /\ \A c \in Cases : groups[c] # "fresh" => results'[c] = results[c]
  BY <1>1 DEF GateInv, GateTyped
<1>4. GateTyped' /\ CallsBounded'
  BY <1>1, <1>3 DEF GateInv, GateTyped, CallsBounded
<1>5. Placed' /\ Planned' /\ Spent'
  BY <1>1 DEF GateInv, Placed, Planned, Spent, InGate, InResume
<1>6. Graded'
  <2>1. \A c \in Cases : /\ Earned(run'.evals[c], results'[c])
                         /\ Deserved(run'.evals[c], results'[c])
    BY <1>1, <1>2, EmptySound
  <2>2. ASSUME NEW c \in Cases PROVE Earned(source'[c], results'[c])
    <3>1. CASE groups[c] = "fresh"
      BY <1>1, <3>1 DEF GateInv, Planned, Earned
    <3>2. CASE groups[c] # "fresh"
      BY <1>1, <1>3, <3>2 DEF GateInv, Graded
    <3> QED
      BY <3>1, <3>2
  <2> QED
    BY <1>1, <2>1, <2>2 DEF Graded, InGate
<1>7. Concluded' /\ ReportIsHonest' /\ CombinedPassIsEarned'
  BY <1>1, <1>2 DEF Concluded, ReportIsHonest, CombinedPassIsEarned
<1> QED
  BY <1>4, <1>5, <1>6, <1>7 DEF GateInv

LEMMA PushKeeps == ASSUME GateInv, Push PROVE GateInv'
<1>1. /\ step # "ended" /\ step # "reported" /\ head' = 1
      /\ UNCHANGED <<step, review, book, results, run, source, groups, remaining, statuses,
                     reserved, combined, sent>>
  BY DEF Push
<1>2. combined # "pass"
  BY <1>1 DEF GateInv, Concluded
<1>3. GateTyped' /\ CallsBounded'
  BY <1>1 DEF GateInv, GateTyped, CallsBounded
<1>4. Placed' /\ Planned' /\ Spent' /\ Graded'
  BY <1>1 DEF GateInv, Placed, Planned, Spent, Graded, InGate, InResume
<1>5. Concluded' /\ ReportIsHonest' /\ CombinedPassIsEarned'
  BY <1>1, <1>2 DEF Concluded, ReportIsHonest, CombinedPassIsEarned
<1> QED
  BY <1>3, <1>4, <1>5 DEF GateInv

LEMMA RefuseKeeps == ASSUME GateInv, Refuse PROVE GateInv'
<1>1. /\ step = "judge" /\ step' = "ended"
      /\ UNCHANGED <<review, book, results, run, source, groups, remaining, statuses,
                     reserved, head, combined, sent>>
  BY DEF Refuse
<1>2. combined # "pass"
  BY <1>1 DEF GateInv, Concluded
<1>3. GateTyped' /\ CallsBounded'
  BY <1>1 DEF GateInv, GateTyped, CallsBounded
<1>4. Placed' /\ Planned' /\ Spent' /\ Graded'
  BY <1>1 DEF GateInv, Placed, Planned, Spent, Graded, InGate, InResume
<1>5. Concluded' /\ ReportIsHonest' /\ CombinedPassIsEarned'
  BY <1>1, <1>2 DEF Concluded, ReportIsHonest, CombinedPassIsEarned
<1> QED
  BY <1>3, <1>4, <1>5 DEF GateInv

LEMMA JudgeKeeps == ASSUME GateInv, Reserve PROVE GateInv'
<1>1. /\ step = "judge" /\ ~reserved /\ reserved' = TRUE /\ remaining' = JudgeLimit
      /\ statuses' = {}
      /\ UNCHANGED <<review, results, source, groups, head, combined, sent>>
  BY DEF Reserve, CanReserve
<1>2. combined # "pass" /\ sent.resume = 0
  BY <1>1 DEF GateInv, Concluded, Spent
<1>3. JudgeLimit \in 0 .. JudgeLimit
  BY GateConstants
<1>4. CASE book.calls > ApplicationLimit
  <2>1. step' = "judge" /\ run' = NoRun
    BY <1>4 DEF Reserve
  <2> QED
    BY <1>1, <1>3, <2>1, AbortKeeps
<1>5. CASE ~(book.calls > ApplicationLimit)
  <2> DEFINE cost == CostPolicy(book.cost, CostBlocks, SuiteLimit)
  <2>1. run' = NewRun("fresh", JudgeLimit, cost) /\ step' = "evaluate"
    BY <1>5 DEF Reserve
  <2>2. cost \in Policies /\ "fresh" \in Modes
    BY CostPolicyTyped DEF Modes
  <2> HIDE DEF cost
  <2>3. /\ source' \in [Cases -> Evaluations]
        /\ \A c \in Cases : Earned(source'[c], results[c])
    BY <1>1 DEF GateInv, GateTyped, Graded
  <2>4. /\ GateTyped' /\ CallsBounded' /\ Graded' /\ Concluded' /\ ReportIsHonest'
        /\ CombinedPassIsEarned'
        /\ run'.mode = "fresh" /\ run'.limit = JudgeLimit /\ run'.calls = 0
    BY <1>1, <1>2, <1>3, <2>1, <2>2, <2>3, BeginsTyped
  <2>5. Placed' /\ Planned'
    BY <1>1, <2>1, <2>4 DEF GateInv, Placed, Planned, InGate, InResume
  <2>6. Spent'
    BY <1>1, <1>2, <2>1, <2>4, GateConstants DEF GateInv, Spent, InGate, InResume
  <2> QED
    BY <2>4, <2>5, <2>6 DEF GateInv
<1> QED
  BY <1>4, <1>5

\* The evaluations so far rest on what was observed, in whatever phase they were made.
LEMMA CombinedSound ==
  ASSUME GateInv
  PROVE  /\ Combined \in [Cases -> Evaluations]
         /\ \A c \in Cases : Earned(Combined[c], results[c])
<1>1. \A c \in Cases : /\ run.evals[c] \in Evaluations /\ source[c] \in Evaluations
                       /\ Earned(run.evals[c], results[c]) /\ Earned(source[c], results[c])
  BY RunFacts DEF GateInv, Graded
<1>2. \A c \in Cases : Combined[c] = IF groups[c] = run.mode THEN run.evals[c] ELSE source[c]
  BY DEF Combined
<1>3. \A c \in Cases : Combined[c] = run.evals[c] \/ Combined[c] = source[c]
  BY <1>2
<1>4. \A c \in Cases : Combined[c] \in Evaluations
  BY <1>1, <1>3
<1>5. Combined \in [Cases -> Evaluations]
  BY <1>4 DEF Combined
<1> QED
  BY <1>1, <1>3, <1>5

LEMMA StartReplayKeeps == ASSUME GateInv, StartReplay PROVE GateInv'
<1>1. /\ step = "evaluate" /\ run.mode = "fresh"
      /\ UNCHANGED <<review, book, results, groups, reserved, head, combined, sent>>
  BY DEF StartReplay, Done
<1>2. InResume /\ reserved /\ combined # "pass"
  BY <1>1 DEF GateInv, Concluded, Placed, InResume
<1>3. reserved' \in BOOLEAN /\ remaining \in 0 .. JudgeLimit
  BY <1>1 DEF GateInv, GateTyped
<1>4. CASE PhaseFails("fresh")
  <2>1. run' = NoRun /\ step' = "judge" /\ UNCHANGED <<remaining, source, statuses>>
    BY <1>1, <1>4 DEF StartReplay, Abort
  <2> QED
    BY <1>1, <1>2, <1>3, <2>1, AbortKeeps
<1>5. CASE ~PhaseFails("fresh")
  <2>1. /\ remaining' = remaining - run.calls /\ source' = Combined
        /\ run' = NewRun("replay", remaining', NoCost) /\ step' = "evaluate"
    BY <1>1, <1>5 DEF StartReplay
  <2>2. run.calls \in Nat /\ ~(run.calls > remaining)
    BY <1>5, RunFacts DEF PhaseFails
  <2>3. remaining' \in 0 .. JudgeLimit
    BY <1>3, <2>1, <2>2, GateConstants
  <2>4. "replay" \in Modes /\ NoCost \in Policies
    BY NoCostTyped DEF Modes
  <2>5. /\ source' \in [Cases -> Evaluations]
        /\ \A c \in Cases : Earned(source'[c], results[c])
    BY <2>1, CombinedSound
  <2>6. /\ GateTyped' /\ CallsBounded' /\ Graded' /\ Concluded' /\ ReportIsHonest'
        /\ CombinedPassIsEarned'
        /\ run'.mode = "replay" /\ run'.limit = remaining' /\ run'.calls = 0
    BY <1>1, <1>2, <1>3, <2>1, <2>3, <2>4, <2>5, BeginsTyped
  <2>7. Placed' /\ Planned'
    BY <1>1, <1>2, <2>1, <2>6 DEF GateInv, Placed, Planned, InGate, InResume
  <2>8. Spent'
    <3>1. sent.resume <= JudgeLimit - remaining + run.calls
      BY <1>2 DEF GateInv, Spent
    <3>2. sent.resume \in Nat /\ JudgeLimit \in Nat /\ remaining \in Nat
      BY <1>3, GateConstants DEF GateInv, GateTyped
    <3>3. sent'.resume <= JudgeLimit - remaining' + run'.calls
      BY <1>1, <2>1, <2>2, <2>6, <3>1, <3>2
    <3>4. InResume' /\ ~InGate'
      BY <2>1, <2>6 DEF InResume, InGate
    <3> QED
      BY <1>1, <1>2, <2>1, <2>6, <3>3, <3>4 DEF GateInv, Spent
  <2> QED
    BY <2>6, <2>7, <2>8 DEF GateInv
<1> QED
  BY <1>4, <1>5

LEMMA AcceptedIsKept == Accepted \subseteq Kept
BY DEF Accepted, Kept

LEMMA CombineKeeps == ASSUME GateInv, Combine PROVE GateInv'
<1>1. /\ step = "evaluate" /\ run.mode # "gate"
      /\ UNCHANGED <<review, book, results, groups, remaining, reserved, head, sent>>
  BY DEF Combine, Done
<1>2. InResume /\ reserved /\ combined # "pass"
  BY <1>1 DEF GateInv, Concluded, Placed, InResume
<1>3. reserved' \in BOOLEAN /\ remaining' \in 0 .. JudgeLimit
  BY <1>1 DEF GateInv, GateTyped
<1>4. CASE PhaseFails(run.mode) \/ head # 0
  <2>1. run' = NoRun /\ step' = "judge" /\ UNCHANGED <<source, statuses, combined>>
    BY <1>1, <1>4 DEF Combine, Abort
  <2> QED
    BY <1>1, <1>2, <1>3, <2>1, AbortKeeps
<1>5. CASE ~(PhaseFails(run.mode) \/ head # 0)
  <2>1. /\ step' = "ended" /\ source' = Combined /\ statuses' = statuses \cup {ReportStatus}
        /\ combined' = (IF Passes THEN "pass" ELSE "fail") /\ run' = run
    BY <1>5 DEF Combine
  <2>2. /\ source' \in [Cases -> Evaluations]
        /\ \A c \in Cases : Earned(source'[c], results[c])
    BY <2>1, CombinedSound
  <2>3. GateTyped' /\ CallsBounded'
    BY <1>1, <2>1, <2>2 DEF GateInv, GateTyped, CallsBounded
  <2>4. Placed' /\ Planned' /\ Spent' /\ Concluded' /\ ReportIsHonest'
    BY <1>1, <2>1 DEF GateInv, Placed, Planned, Spent, Concluded, ReportIsHonest, InGate,
                      InResume
  <2>5. Graded'
    BY <1>1, <2>1, <2>2 DEF GateInv, Graded, InGate
  <2>6. CombinedPassIsEarned'
    <3>1. SUFFICES ASSUME Passes PROVE CombinedPassIsEarned'
      BY <2>1 DEF CombinedPassIsEarned
    <3>2. head' = 0 /\ reserved' /\ Accepted' = Accepted
      BY <1>1, <1>2, <1>5 DEF Accepted
    <3>3. ASSUME NEW c \in Cases
          PROVE  /\ source'[c].decision \in Accepted' /\ ~source'[c].critical
                 /\ source'[c].clear < 2 /\ groups'[c] # "none" /\ results'[c] = "passed"
      <4>1. source'[c].decision \in Accepted
        BY <2>1, <3>1 DEF Passes
      <4>2. /\ results[c] = "passed" /\ ~source'[c].critical
            /\ (source'[c].clear = 0 \/ source'[c].clear = 1)
        BY <2>2, <4>1, AcceptedIsKept DEF Earned
      <4>3. source'[c].clear < 2
        BY <4>2
      <4>4. groups[c] # "none"
        BY <1>2 DEF GateInv, Planned
      <4> QED
        BY <1>1, <3>2, <4>1, <4>2, <4>3, <4>4
    <3>4. statuses' \subseteq Accepted'
      BY <2>1, <3>1, <3>2 DEF Passes
    <3>5. \E c \in Cases : groups'[c] = "fresh"
      BY <1>1, <1>2 DEF GateInv, Planned
    <3> QED
      BY <3>2, <3>3, <3>4, <3>5 DEF CombinedPassIsEarned
  <2> QED
    BY <2>3, <2>4, <2>5, <2>6 DEF GateInv
<1> QED
  BY <1>4, <1>5

LEMMA GateInvInit == Init => GateInv
<1> SUFFICES ASSUME Init PROVE GateInv
  OBVIOUS
<1>1. /\ step = "capture" /\ results = [c \in Cases |-> "passed"] /\ run = NoRun
      /\ source = [c \in Cases |-> Unjudged] /\ groups = [c \in Cases |-> "none"]
      /\ remaining = JudgeLimit /\ statuses = {} /\ reserved = FALSE /\ head = 0
      /\ combined = "none" /\ sent = [gate |-> 0, resume |-> 0]
  BY DEF Init
<1>2. Empty(run)
  BY <1>1, NoRunTyped DEF Empty
<1>3. GateTyped
  <2>1. source \in [Cases -> Evaluations] /\ run \in Runs
    BY <1>1, UnjudgedTyped, NoRunTyped
  <2>2. sent \in [{"gate", "resume"} -> Nat]
    BY <1>1
  <2>3. results \in [Cases -> Results]
    BY <1>1 DEF Results
  <2>4. groups \in [Cases -> {"none", "fresh", "replay", "carried"}]
    BY <1>1
  <2>5. remaining \in 0 .. JudgeLimit /\ head \in 0 .. 1
    BY <1>1, GateConstants
  <2>6. reserved \in BOOLEAN
    BY <1>1, Zenon
  <2> QED
    BY <1>1, <2>1, <2>2, <2>3, <2>4, <2>5, <2>6 DEF GateTyped
<1>4. CallsBounded
  BY <1>1, NoRunTyped, GateConstants DEF CallsBounded
<1>5. Placed
  BY <1>1, <1>2, UnjudgedTyped DEF Placed, InResume
<1>6. Graded
  <2>1. \A c \in Cases : /\ Earned(run.evals[c], results[c])
                         /\ Deserved(run.evals[c], results[c])
    BY <1>2, EmptySound
  <2>2. \A c \in Cases : source[c].decision = "none"
    BY <1>1, UnjudgedTyped
  <2>3. \A c \in Cases : Earned(source[c], results[c])
    BY <2>2 DEF Earned, Kept
  <2> QED
    BY <1>1, <2>1, <2>3 DEF Graded, InGate
<1>7. Planned /\ Concluded /\ ReportIsHonest /\ CombinedPassIsEarned
  BY <1>1 DEF Planned, Concluded, ReportIsHonest, CombinedPassIsEarned, InResume
<1>8. Spent
  BY <1>1, GateConstants DEF Spent, InGate, InResume
<1> QED
  BY <1>3, <1>4, <1>5, <1>6, <1>7, <1>8 DEF GateInv

LEMMA GateInvNext == GateInv /\ [Next]_vars => GateInv'
<1> SUFFICES ASSUME GateInv, [Next]_vars PROVE GateInv'
  OBVIOUS
<1>1. CASE UNCHANGED vars
  <2>1. /\ UNCHANGED <<step, review, book, results, run, source, groups, remaining, statuses,
                       reserved, head, combined, sent>>
    BY <1>1 DEF vars
  <2>2. GateTyped' /\ CallsBounded' /\ Placed' /\ Graded'
    BY <2>1 DEF GateInv, GateTyped, CallsBounded, Placed, Graded, InGate, InResume, Empty
  <2>3. Planned' /\ Spent' /\ Concluded' /\ ReportIsHonest' /\ CombinedPassIsEarned'
    BY <2>1 DEF GateInv, Planned, Spent, Concluded, ReportIsHonest, CombinedPassIsEarned,
                Accepted, InGate, InResume
  <2> QED
    BY <2>2, <2>3 DEF GateInv
<1>2. CASE Next
  BY <1>2, CaptureKeeps, StartKeeps, DecideDeterministicKeeps, DecideUnreportedKeeps,
     OverBudgetKeeps, AttemptKeeps, SuiteTimeoutKeeps, ReportKeeps, PrepareKeeps,
     FreshCaptureKeeps, PushKeeps, JudgeKeeps, RefuseKeeps, StartReplayKeeps, CombineKeeps
     DEF Next
<1> QED
  BY <1>1, <1>2

LEMMA GateInvAlways == Spec => []GateInv
BY GateInvInit, GateInvNext, PTL DEF Spec

\* The types of the gate's state, and the bound on the attempts of an invocation.
THEOREM GateTypeCorrect == Spec => []TypeOK
<1>1. GateInv => TypeOK
  <2> SUFFICES ASSUME GateInv PROVE TypeOK
    OBVIOUS
  <2>1. run.calls \in 0 .. (JudgeLimit + CaseCount)
    <3>1. run.calls <= run.limit + run.at - 1
      BY DEF GateInv, CallsBounded
    <3> QED
      BY <3>1, RunFacts, GateConstants
  <2>2. \A c \in Cases : run.evals[c].decision \in Decisions
    <3>1. \A c \in Cases : run.evals[c] \in Evaluations
      BY RunFacts
    <3> QED
      BY <3>1 DEF Evaluations
  <2> QED
    BY <2>1, <2>2, RunFacts DEF GateInv, GateTyped, TypeOK
<1> QED
  BY <1>1, GateInvAlways, PTL

\* What the gate says of the product follows from what was observed, whatever the cases, the
\* captures and the judge's answers: a total only for accounts that hide nothing, a decision
\* only from the grades, a report that hides no failure (live_runner.py).
THEOREM VerdictsAreFounded == Spec => []VerdictsFollowEvidence
<1>1. GateInv => VerdictsFollowEvidence
  <2> SUFFICES ASSUME GateInv PROVE VerdictsFollowEvidence
    OBVIOUS
  <2>1. CostsAreHonest
    <3>1. SUFFICES ASSUME step = "start" PROVE Honest(book)
      BY DEF CostsAreHonest, Honest
    <3>2. book \in Books
      BY <3>1 DEF GateInv, Placed
    <3>3. PICK threads \in ThreadSets, telemetry \in Telemetries :
                 book = Book(threads, telemetry)
      BY <3>2 DEF Books
    <3> QED
      BY <3>3, BooksAreHonest
  <2>2. DecisionsFollowGrades
    BY DEF GateInv, Graded, Earned, Deserved, Kept, DecisionsFollowGrades
  <2> QED
    BY <2>1, <2>2 DEF GateInv, VerdictsFollowEvidence
<1> QED
  BY <1>1, GateInvAlways, PTL

\* A resume spends no more of the judge than one budget, however often its commands fail, and
\* passes only what every phase of it earned, for the head that was planned (pr_resume.py).
THEOREM ResumesAreEarned == Spec => []ResumeIsEarned
<1>1. GateInv => ResumeIsEarned
  <2> SUFFICES ASSUME GateInv PROVE ResumeIsEarned
    OBVIOUS
  <2> DEFINE recorded == FoldSet(LAMBDA c, n : n + run.evals[c].judged, 0, Cases)
  <2>1. ASSUME Done("gate"), JudgeCostKnown(run.calls, recorded, run.limit)
        PROVE  sent.gate = recorded
    <3>1. InGate
      BY <2>1 DEF Done, InGate
    <3>2. run.calls <= run.limit => sent.gate = run.calls
      BY <3>1 DEF GateInv, Spent
    <3>3. run.calls = recorded /\ run.calls <= run.limit
      <4> HIDE DEF recorded
      <4> QED
        BY <2>1, RunFacts DEF JudgeCostKnown
    <3> QED
      BY <3>2, <3>3
  <2>2. SpendIsBounded
    BY <2>1 DEF GateInv, Spent, SpendIsBounded
  <2> QED
    BY <2>2 DEF GateInv, ResumeIsEarned
<1> QED
  BY <1>1, GateInvAlways, PTL
=============================================================================
