----------------------------- MODULE RateLimiter -----------------------------
(***************************************************************************)
(* The sliding window that keeps a radar source's requests within its      *)
(* budget (src/src/rate-limiter.ts).  One limiter serves every card of the *)
(* page (src/src/rate-limiters.ts).  Time is counted in any unit; the      *)
(* clock does not run backwards.                                           *)
(***************************************************************************)
EXTENDS Integers, Sequences, FiniteSets, SequencesExt

CONSTANTS
  Urls,          \* tile URLs
  MaxPerMinute,  \* the source's budget
  Minute,        \* the length of the window
  UrlCacheMax,   \* URL_CACHE_MAX
  LastTime       \* bound on the clock

ASSUME LimiterAssumption ==
  /\ MaxPerMinute \in Nat \ {0} /\ Minute \in Nat \ {0}
  /\ UrlCacheMax \in Nat \ {0} /\ LastTime \in Nat

VARIABLES
  now,     \* Date.now()
  window,  \* _window: the times of counted requests, oldest first
  cache,   \* _cache: delivered URLs, least recently confirmed first
  sent     \* every counted request so far, by time: what _window forgets

limiter == <<now, window, cache, sent>>

LimiterInit == now = 0 /\ window = <<>> /\ cache = <<>> /\ sent = <<>>

\* Mutant of Pruned: entries leave one unit early.
PrunedEarly(w) ==
  LET old == Max({n \in 0..Len(w) : \A i \in 1..n : w[i] <= now - Minute + 1})
  IN  SubSeq(w, old + 1, Len(w))

\* _prune: the leading entries that are a minute old, or older, are shifted out.
Pruned(w) ==
  LET old == Max({n \in 0..Len(w) : \A i \in 1..n : w[i] <= now - Minute})
  IN  SubSeq(w, old + 1, Len(w))

Known(url) == url \in ToSet(cache)

\* canFetch.  It prunes unless the URL is known.
CanFetch(url) == Known(url) \/ Len(Pruned(window)) < MaxPerMinute

\* canFetch, then record in the same turn.
Record(url) ==
  IF Known(url) THEN UNCHANGED <<window, sent>>
  ELSE window' = Append(Pruned(window), now) /\ sent' = Append(sent, now)

\* canFetch found no slot; msUntilSlot prunes again.
NoSlot == window' = Pruned(window) /\ UNCHANGED sent

\* recordSuccess: the URL is the most recent; beyond the limit the oldest goes.
RecordSuccess(c, url) ==
  LET next == Append(Remove(c, url), url)
  IN  IF Len(next) > UrlCacheMax THEN Tail(next) ELSE next

\* Time passes.
Tick == now < LastTime /\ now' = now + 1 /\ UNCHANGED <<window, cache, sent>>

-----------------------------------------------------------------------------

LimiterTypeOK ==
  /\ now \in Nat
  /\ window \in Seq(Nat) /\ sent \in Seq(Nat)
  /\ cache \in Seq(Urls)

\* The budget: any MaxPerMinute + 1 counted requests in a row span a minute,
\* whoever sent them and whenever the window was pruned.
BudgetKept ==
  \A i \in 1..(Len(sent) - MaxPerMinute) : sent[i + MaxPerMinute] >= sent[i] + Minute
==============================================================================
