--------------------------- MODULE InputVerdicts ---------------------------
(***************************************************************************)
(* The verdicts on chat messages (backend/api/chat_guards.py): a message   *)
(* is asked about at a model, and for TTL after the question the verdict   *)
(* may be reused for the same message of the same conversation.  Checks of *)
(* one message race, and their verdicts arrive in any order, the last ones *)
(* possibly when they are too old to be kept.                              *)
(***************************************************************************)
EXTENDS Integers, Sequences, FiniteSets, SequencesExt

CONSTANTS
  Keys,      \* messages in their conversations (cache keys)
  Checks,    \* checks of a message: 1..n
  TTL,       \* _INPUT_VERDICT_TTL_SECONDS
  Capacity,  \* _INPUT_VERDICT_CAPACITY
  MaxTime    \* bound on the clock

VARIABLES
  now,    \* time.monotonic
  cache,  \* _INPUT_VERDICT_CACHE, the least recently used entry first
  calls,  \* the checks: their message, when they began, the verdict they returned
  heard   \* history: the verdicts that arrived for each key since its entry was made

vars == <<now, cache, calls, heard>>

\* _INPUT_VERDICT_PRIORITY.
Verdicts == {"ACCEPT", "OFF_TOPIC", "UNSAFE"}
Priority(v) == CASE v = "ACCEPT" -> 0 [] v = "OFF_TOPIC" -> 1 [] v = "UNSAFE" -> 2
\* Mutant: the last verdict counts.
Latest(v, w) == v

Stronger(v, w) == IF Priority(v) >= Priority(w) THEN v ELSE w

NoCall == [key |-> "no message", began |-> 0, end |-> "none"]

TypeOK ==
  /\ now \in 0..MaxTime
  /\ \A i \in DOMAIN cache :
       cache[i].key \in Keys /\ cache[i].verdict \in Verdicts /\ cache[i].until \in Nat
  /\ Len(cache) <= Capacity
  /\ \A i, j \in DOMAIN cache : cache[i].key = cache[j].key => i = j
  /\ \A c \in Checks : calls[c].end \in {"none", "asked", "error"} \cup Verdicts

Init ==
  /\ now = 0 /\ cache = << >>
  /\ calls = [c \in Checks |-> NoCall]
  /\ heard = [k \in Keys |-> {}]

-----------------------------------------------------------------------------
(* _input_verdict_cache_value.                                             *)

Live == SelectSeq(cache, LAMBDA e : e.until > now)
Entries(k) == SelectSeq(Live, LAMBDA e : e.key = k)
Others(k) == SelectSeq(Live, LAMBDA e : e.key # k)
Keep(entries) == IF Len(entries) > Capacity THEN Tail(entries) ELSE entries

\* Mutant: every verdict gives the entry a new life.
Renewed(until, entry) == until

Sooner(until, entry) == IF until < entry.until THEN until ELSE entry.until

\* Mutant: a verdict that is too old changes nothing.
IgnoreLate(k, verdict) == Live

\* A stale denial cannot be retained, but it invalidates weaker reuse.
WhenLate(k, verdict) ==
  IF Entries(k) # << >> /\ Priority(verdict) > Priority(Entries(k)[1].verdict)
  THEN Others(k) ELSE Live

\* The verdict that a check returns when its own has arrived.
Merged(k, verdict) ==
  IF Entries(k) = << >> THEN verdict ELSE Stronger(verdict, Entries(k)[1].verdict)

Completed(k, began, verdict) ==
  LET until == began + TTL
      entry == [key |-> k, verdict |-> Merged(k, verdict),
                until |-> IF Entries(k) = << >> THEN until ELSE Sooner(until, Entries(k)[1])]
  IN  IF until <= now THEN WhenLate(k, Merged(k, verdict))
      ELSE Keep(Append(Others(k), entry))

Recall(entries, news) ==
  heard' = [k \in Keys |->
    IF \E i \in DOMAIN entries : entries[i].key = k
    THEN news[k] \cup (IF Entries(k) = << >> THEN {} ELSE heard[k]) ELSE {}]

NoNews == [k \in Keys |-> {}]

-----------------------------------------------------------------------------
(* chat_input_error.                                                       *)

\* Checks are begun in order; a verdict in the cache ends a check at once.
Ask(c) ==
  /\ calls[c].end = "none" /\ \A d \in Checks : d < c => calls[d].end # "none"
  /\ \E k \in Keys :
       /\ cache' = Others(k) \o Entries(k)
       /\ Recall(cache', NoNews)
       /\ calls' = [calls EXCEPT ![c] = [key |-> k, began |-> now,
            end |-> IF Entries(k) = << >> THEN "asked" ELSE Entries(k)[1].verdict]]
  /\ UNCHANGED now

\* The model's answer; a refusal of the provider is UNSAFE.
Answer(c) ==
  /\ calls[c].end = "asked"
  /\ \E verdict \in Verdicts :
       LET k == calls[c].key
           fresh == calls[c].began + TTL > now
       IN  /\ cache' = Completed(k, calls[c].began, verdict)
           /\ calls' = [calls EXCEPT ![c].end = Merged(k, verdict)]
           /\ Recall(cache', [NoNews EXCEPT ![k] =
                {[verdict |-> verdict, fresh |-> fresh, began |-> calls[c].began]}])
  /\ UNCHANGED now

\* A failed call, an incomplete or an unreadable answer refuses, and is not remembered.
Fail(c) ==
  /\ calls[c].end = "asked"
  /\ calls' = [calls EXCEPT ![c].end = "error"]
  /\ UNCHANGED <<now, cache, heard>>

Tick ==
  /\ now < MaxTime
  /\ now' = now + 1
  /\ UNCHANGED <<cache, calls, heard>>

Next == (\E c \in Checks : Ask(c) \/ Answer(c) \/ Fail(c)) \/ Tick

Spec == Init /\ [][Next]_vars

-----------------------------------------------------------------------------
(* Properties.                                                             *)

\* A verdict that can be reused is at least as strict as every verdict that arrived for
\* the message since it is kept, in whatever order and however late they arrived, and
\* it is not reused longer than the oldest question behind it allows.
ReuseIsSound ==
  \A i \in DOMAIN cache : \A h \in heard[cache[i].key] :
    cache[i].until > now =>
      /\ Priority(h.verdict) <= Priority(cache[i].verdict)
      /\ h.fresh => cache[i].until <= h.began + TTL
=============================================================================
