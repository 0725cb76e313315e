------------------------------ MODULE BargeIn ------------------------------
(***************************************************************************)
(* How a customer's speech becomes a barge-in: the results of the           *)
(* recogniser pass through _asr_pump, the lossy lane of the bus, its bridge *)
(* and asr_partials_q to _partial_monitor (run_loop.py), which measures how *)
(* long the customer has been speaking and evaluates the campaign's rule    *)
(* tree (interruption_rules.py, interruption_detector.py).                  *)
(*                                                                          *)
(* Pump, dispatcher and monitor are three tasks, so a final, which clears   *)
(* the speech-start anchor in the pump, overtakes the partials before it.   *)
(* Time is a clock that the tasks read; a text is a model value with a      *)
(* length.  When a reply is in progress is CallLoop's subject: here main    *)
(* starts and ends replies, and takes the signal back, when it pleases.     *)
(***************************************************************************)
EXTENDS Integers, Sequences

CONSTANTS
  Texts,        \* texts of partials, stripped
  Blank,        \* the one of them that is empty
  Length,       \* [Texts -> Nat]
  Whitelist,    \* interruption_whitelist
  MinChars,     \* interruption_min_chars
  MinDuration,  \* interruption_min_duration_ms
  Trees,        \* the rule trees of the model, with their subtrees
  Campaigns,    \* interruption_rules of the campaigns: trees, or NoTree
  NoTree,
  LossyMax,     \* capacity of the lossy lane
  MaxPartials,  \* bound: partials of the vendor
  MaxFinals,    \* bound: utterances it finalises
  MaxClock      \* bound: ticks

\* default_rule: the tree of a campaign that configures none.
DefaultRule ==
  LET listed == IF Whitelist = {} THEN <<>>
                ELSE <<[type |-> "not", rule |->
                         [type |-> "keyword", match |-> "exact", values |-> Whitelist]]>>
  IN  [type |-> "and",
       rules |-> listed \o <<[type |-> "length", value |-> MinChars],
                             [type |-> "duration", value |-> MinDuration]>>]

\* The rules that build_rule compiles for a composite rule.
Subtrees(r) ==
  IF r.type \in {"and", "or"} THEN {r.rules[i] : i \in DOMAIN r.rules}
  ELSE IF r.type = "not" THEN {r.rule}
  ELSE {}

ASSUME BargeInAssumption ==
  /\ Blank \in Texts
  /\ Length \in [Texts -> Nat]
  /\ Whitelist \subseteq Texts
  /\ MinChars \in Nat
  /\ MinDuration \in Nat
  /\ Campaigns \subseteq Trees \union {NoTree}
  /\ NoTree \notin Trees
  /\ DefaultRule \in Trees
  /\ LossyMax \in Nat \ {0}
  /\ MaxPartials \in Nat
  /\ MaxFinals \in Nat
  /\ MaxClock \in Nat

\* build_rule recurses to an end: the subtrees of a tree are trees, and among
\* any trees is one that contains no other of them.
ASSUME TreesAssumption ==
  /\ \A r \in Trees : Subtrees(r) \subseteq Trees
  /\ \A S \in (SUBSET Trees) \ {{}} : \E r \in S : Subtrees(r) \intersect S = {}

VARIABLES
  rule,      \* the compiled tree of this call
  replying,  \* in_processing_turn, or a current_speaking_task
  monitor,   \* _partial_monitor has been started
  signaled,  \* session.interruption_signaled
  anchor,    \* session.current_user_speech_started_ms, or Never
  lane,      \* partials on the lossy lane
  queue,     \* asr_partials_q
  clock,
  utt,       \* number of the utterance the vendor is recognising
  began,     \* history: when its first partial was posted, or Never
  judgedAt,  \* history: when the monitor first judged a partial of it, or Never
  partials,  \* partials so far
  leftover,  \* history: an utterance was judged after its final, or has none
  last       \* history: the partial judged last, with its verdict

uttVars == <<utt, began, judgedAt>>
biVars == <<rule, replying, monitor, signaled, anchor, lane, queue, clock, uttVars,
            partials, leftover, last>>

Never == -1

NoVerdict == [triggered |-> FALSE, text |-> Blank, utt |-> 0, elapsed |-> 0, spoke |-> 0]

Partials == [utt : Nat, text : Texts]

BITypeOK ==
  /\ rule \in Trees
  /\ replying \in BOOLEAN
  /\ monitor \in BOOLEAN
  /\ signaled \in BOOLEAN
  /\ anchor \in Nat \union {Never}
  /\ lane \in Seq(Partials)
  /\ queue \in Seq(Partials)
  /\ clock \in Nat
  /\ utt \in Nat
  /\ began \in Nat \union {Never}
  /\ judgedAt \in Nat \union {Never}
  /\ partials \in Nat
  /\ leftover \in BOOLEAN
  /\ last \in [triggered : BOOLEAN, text : Texts, utt : Nat, elapsed : Int, spoke : Int]

\* load_runtime_config compiles the campaign's tree, or the default one.  The
\* recogniser listens already while the greeting plays.
BIInit ==
  /\ \E c \in Campaigns : rule = IF c = NoTree THEN DefaultRule ELSE c
  /\ replying = FALSE
  /\ monitor = FALSE
  /\ signaled = FALSE
  /\ anchor = Never
  /\ lane = <<>>
  /\ queue = <<>>
  /\ clock = 0
  /\ utt = 1
  /\ began = Never
  /\ judgedAt = Never
  /\ partials = 0
  /\ leftover = FALSE
  /\ last = NoVerdict

-----------------------------------------------------------------------------
\* The rule tree.

\* Rule.evaluate of one rule, given what its subtrees evaluate to.  A keyword
\* in "contains" mode, a regular expression and a delimiter all search the text:
\* they are the set of the texts they are found in.  A "none" holds of nothing.
Holds(r, holds, text, elapsed) ==
  \/ r.type = "keyword"  /\ text \in r.values
  \/ r.type = "length"   /\ Length[text] >= r.value
  \/ r.type = "duration" /\ elapsed >= r.value
  \/ r.type = "search"   /\ text \in r.hits
  \/ r.type = "and"      /\ \A i \in DOMAIN r.rules : holds[r.rules[i]]
  \/ r.type = "or"       /\ \E i \in DOMAIN r.rules : holds[r.rules[i]]
  \/ r.type = "not"      /\ ~holds[r.rule]

Evaluate(tree, text, elapsed) ==
  LET holds[r \in Trees] == Holds(r, holds, text, elapsed)
  IN  holds[tree]

-----------------------------------------------------------------------------
\* The pump and the lossy lane.

\* A partial is posted; a full lane drops its oldest.
AsrPartial ==
  /\ partials < MaxPartials
  /\ partials' = partials + 1
  /\ \E text \in Texts :
       lane' = Append(IF Len(lane) = LossyMax THEN Tail(lane) ELSE lane,
                      [utt |-> utt, text |-> text])
  /\ began' = IF began = Never THEN clock ELSE began
  /\ UNCHANGED <<rule, replying, monitor, signaled, anchor, queue, clock, utt,
                 judgedAt, leftover, last>>

NextUtterance ==
  /\ utt' = utt + 1
  /\ began' = Never
  /\ judgedAt' = Never

\* Mutant: the final does not clear the anchor.
AsrFinalKeepsAnchor ==
  /\ utt <= MaxFinals
  /\ NextUtterance
  /\ UNCHANGED <<rule, replying, monitor, signaled, anchor, lane, queue, clock,
                 partials, leftover, last>>

\* A final closes the utterance and clears the anchor; it need not have had a
\* partial.
AsrFinal ==
  /\ utt <= MaxFinals
  /\ anchor' = Never
  /\ NextUtterance
  /\ UNCHANGED <<rule, replying, monitor, signaled, lane, queue, clock, partials,
                 leftover, last>>

\* The vendor never finalises the utterance: a noise, or a lost connection.
Abandoned ==
  /\ began # Never
  /\ leftover' = TRUE
  /\ NextUtterance
  /\ UNCHANGED <<rule, replying, monitor, signaled, anchor, lane, queue, clock,
                 partials, last>>

\* The dispatcher of the lossy lane runs _bridge_partial.
BridgePartial ==
  /\ lane # <<>>
  /\ queue' = Append(queue, Head(lane))
  /\ lane' = Tail(lane)
  /\ UNCHANGED <<rule, replying, monitor, signaled, anchor, clock, uttVars,
                 partials, leftover, last>>

-----------------------------------------------------------------------------
\* main.

\* The greeting is over: _drain_greeting_era_asr, then _start_monitors.
GreetingEnds ==
  /\ ~monitor
  /\ queue' = <<>>
  /\ anchor' = Never
  /\ monitor' = TRUE
  /\ UNCHANGED <<rule, replying, signaled, lane, clock, uttVars, partials,
                 leftover, last>>

\* A turn or a playback starts.
ReplyBegins ==
  /\ monitor
  /\ ~replying
  /\ replying' = TRUE
  /\ UNCHANGED <<rule, monitor, signaled, anchor, lane, queue, clock, uttVars,
                 partials, leftover, last>>

\* ... and ends; main may have seen the signal, and then clears it.
ReplyEnds ==
  /\ replying
  /\ replying' = FALSE
  /\ signaled' \in {signaled, FALSE}
  /\ UNCHANGED <<rule, monitor, anchor, lane, queue, clock, uttVars, partials,
                 leftover, last>>

Tick ==
  /\ clock < MaxClock
  /\ clock' = clock + 1
  /\ UNCHANGED <<rule, replying, monitor, signaled, anchor, lane, queue, uttVars,
                 partials, leftover, last>>

-----------------------------------------------------------------------------
\* _partial_monitor.

\* The partials the monitor passes over.
Skips(p) == ~replying \/ signaled \/ p.text = Blank

SkipPartial ==
  /\ monitor
  /\ queue # <<>>
  /\ Skips(Head(queue))
  /\ queue' = Tail(queue)
  /\ UNCHANGED <<rule, replying, monitor, signaled, anchor, lane, clock, uttVars,
                 partials, leftover, last>>

\* Mutant: every partial sets the anchor.
AnchoredAnew == clock

\* The time of the anchor once this partial has been seen.
Anchored == IF anchor = Never THEN clock ELSE anchor

Judge(p, started) ==
  LET elapsed == clock - started
      verdict == Evaluate(rule, p.text, elapsed)
      first   == IF judgedAt = Never THEN clock ELSE judgedAt
  IN  /\ signaled' = verdict
      /\ anchor' = started
      /\ judgedAt' = IF p.utt = utt THEN first ELSE judgedAt
      /\ leftover' = (leftover \/ p.utt # utt)
      /\ last' = [triggered |-> verdict, text |-> p.text, utt |-> p.utt,
                  elapsed |-> IF p.utt = utt THEN clock - first ELSE 0,
                  spoke |-> IF p.utt = utt THEN clock - began ELSE 0]

JudgePartial ==
  /\ monitor
  /\ queue # <<>>
  /\ ~Skips(Head(queue))
  /\ queue' = Tail(queue)
  /\ Judge(Head(queue), Anchored)
  /\ UNCHANGED <<rule, replying, monitor, lane, clock, utt, began, partials>>

BINext ==
  \/ AsrPartial \/ AsrFinal \/ Abandoned \/ BridgePartial
  \/ GreetingEnds \/ ReplyBegins \/ ReplyEnds \/ Tick
  \/ SkipPartial \/ JudgePartial

BISpec == BIInit /\ [][BINext]_biVars

-----------------------------------------------------------------------------
\* Properties.

\* No barge-in is missed: under the default tree, a judged partial of the
\* utterance that is being spoken is passed over only if its text is listed or
\* short, or if the customer has not been speaking for MinDuration since the
\* monitor first judged the utterance.  However the final of the utterance
\* before overtakes its partials, the anchor is never too late.
NoBargeInMissed ==
  rule = DefaultRule /\ last.utt = utt /\ ~last.triggered =>
    \/ last.text \in Whitelist
    \/ Length[last.text] < MinChars
    \/ last.elapsed < MinDuration

\* A customer who has just begun to speak does not barge in under the default
\* tree, unless an earlier utterance left its anchor behind: it was judged
\* after its final had cleared the anchor, or it never got a final.
EarlyOnlyByLeftover ==
  rule = DefaultRule /\ last.triggered /\ ~leftover =>
    /\ last.spoke >= MinDuration
    /\ last.text \notin Whitelist
    /\ Length[last.text] >= MinChars

-----------------------------------------------------------------------------
\* Claims of the repository's comments that are stronger than what the code
\* does: each is violated in this model.

\* The anchor is the first partial of an utterance: the duration condition is
\* about the utterance that barges in.
DurationHonoured ==
  rule = DefaultRule /\ last.triggered /\ last.utt = utt => last.spoke >= MinDuration
=============================================================================
