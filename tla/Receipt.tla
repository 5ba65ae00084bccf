------------------------------- MODULE Receipt -------------------------------
(***************************************************************************)
(* The figures of a receipt: render_manifest measures, rounds and adds     *)
(* them, and the benchmark's _validated_receipt recomputes what it can     *)
(* from the rounded ones before it believes any.                           *)
(*                                                                         *)
(* Clocks and audio are measured in ticks, of which a millisecond has      *)
(* Milli; receipts give milliseconds, and the real time factor in parts of *)
(* Fine.  What a render prints need not be what it measured: one figure    *)
(* may be another.  Sums of floating point numbers are exact here, but a   *)
(* comparison that they meet exactly may turn out either way.              *)
(***************************************************************************)
EXTENDS Integers

CONSTANTS N,             \* segments of the manifest
          Milli,         \* ticks in a millisecond
          Fine,          \* parts of the real time factor: four decimals
          Tolerance,     \* of the real time factor, in these parts
          Samples,       \* ticks of audio a segment may have
          Times,         \* ticks that loading or generating may take
          Spares,        \* ticks a render may spend on anything else
          Lies,          \* by how much a figure may be another
          SegmentLimit,  \* MAX_RECEIPT_SEGMENT_SECONDS
          AudioLimit,    \* MAX_RECEIPT_AUDIO_SECONDS
          TimeLimit,     \* RENDER_TIMEOUT_SECONDS, as a time
          FactorLimit    \* and as a factor

ASSUME ReceiptAssumption ==
    /\ N \in Nat \ {0} /\ Milli \in Nat \ {0} /\ Fine \in Nat \ {0}
    /\ Tolerance \in Nat \ {0}
    /\ Samples \subseteq Nat \ {0} /\ Times \subseteq Nat /\ Spares \subseteq Nat
    /\ Lies \subseteq Int
    /\ SegmentLimit \in Nat /\ AudioLimit \in Nat
    /\ TimeLimit \in Nat /\ FactorLimit \in Nat

VARIABLES
    phase,     \* the next step of the render, then of the validation
    n,         \* segments selected: all, or one with --only
    made,      \* segments rendered
    load,      \* ticks the model took to load
    took,      \* ticks the segments took to generate
    wall,      \* ticks of the whole render
    items,     \* receipts
    receipt,   \* the figures of the whole render
    garbled,   \* ghost: a figure is not what the render measured
    at,        \* the item being validated
    durations, generations,  \* sums of the figures of the items so far
    claimed    \* ghost: sum of their samples

measured == <<n, made, load, took, wall>>
read == <<at, durations, generations, claimed>>
receiptVars == <<phase, measured, items, receipt, garbled, read>>

Item == [samples : Int, duration : Int, generation : Int, faint : BOOLEAN]
Figures == [load : Int, generation : Int, wall : Int, audio : Int, factor : Int]
Blank == [load |-> 0, generation |-> 0, wall |-> 0, audio |-> 0, factor |-> 0]

ReceiptTypeOK ==
    /\ phase \in {"load", "render", "report", "printed", "item", "totals",
               "valid", "invalid", "failed"}
    /\ n \in 1..N /\ made \in 0..n
    /\ load \in Nat /\ took \in Nat /\ wall \in Nat
    /\ items \in [1..made -> Item] /\ receipt \in Figures
    /\ garbled \in BOOLEAN
    /\ at \in 1..made+1
    /\ durations \in Int /\ generations \in Int /\ claimed \in Int
    /\ phase = "item" => at <= made

\* What so many ticks may be rounded to: half a millisecond goes either way.
Roundings(ticks) == {ms \in ticks \div Milli .. ticks \div Milli + 1 :
                        2 * (ms * Milli - ticks) \in -Milli..Milli}

ReceiptInit ==
    /\ phase = "load"
    /\ n \in {1, N} /\ made = 0
    /\ load = 0 /\ took = 0 /\ wall = 0
    /\ items = <<>> /\ receipt = Blank /\ garbled = FALSE
    /\ at = 1 /\ durations = 0 /\ generations = 0 /\ claimed = 0

-----------------------------------------------------------------------------
\* The render

Advance(from, to) == phase = from /\ phase' = to

Load ==
    /\ Advance("load", "render")
    /\ load' \in Times
    /\ UNCHANGED <<n, made, took, wall, items, receipt, garbled, read>>

\* A segment is generated and published; the sum of the durations may stop the
\* render then, or else the next segment follows.
RenderSegment ==
    \E s \in Samples, t \in Times :
        /\ s <= SegmentLimit * Milli
        /\ \E d \in Roundings(s), g \in Roundings(t), faint \in BOOLEAN :
              /\ items' = [i \in 1..made+1 |->
                              IF i <= made THEN items[i]
                              ELSE [samples |-> s, duration |-> d,
                                    generation |-> g, faint |-> faint]]
              /\ receipt' = [receipt EXCEPT !.audio = @ + d, !.generation = @ + g]
        /\ Advance("render", IF made + 1 < n THEN "render" ELSE "report")
        /\ receipt'.audio <= AudioLimit
        /\ made' = made + 1 /\ took' = took + t
        /\ UNCHANGED <<n, load, wall, garbled, read>>

RenderStops ==
    /\ Advance("render", "failed")
    /\ \E s \in Samples : \/ s > SegmentLimit * Milli
                          \/ \E d \in Roundings(s) : receipt.audio + d >= AudioLimit
    /\ UNCHANGED <<measured, items, receipt, garbled, read>>

\* Mutant of Factors: the factor has three decimals.
FactorsRough(w, audio) ==
    {f \in {10 * ((Fine * w) \div (10 * audio * Milli) + x) : x \in 0..1} :
        2 * (f * audio * Milli - Fine * w) \in -10 * audio * Milli..10 * audio * Milli}

\* What the quotient of the whole time, not rounded, and the sum of the
\* durations may be rounded to.
Factors(w, audio) ==
    {f \in (Fine * w) \div (audio * Milli) .. (Fine * w) \div (audio * Milli) + 1 :
        2 * (f * audio * Milli - Fine * w) \in -audio * Milli..audio * Milli}

\* The receipt is printed, unless there is no audio to divide by or the time
\* of the benchmark is up.
Report ==
    /\ Advance("report", "printed")
    /\ receipt.audio > 0
    /\ \E spare \in Spares : wall' = load + took + spare
    /\ wall' <= TimeLimit * Milli
    /\ \E l \in Roundings(load), w \in Roundings(wall'), f \in Factors(wall', receipt.audio) :
          receipt' = [receipt EXCEPT !.load = l, !.wall = w, !.factor = f]
    /\ UNCHANGED <<n, made, load, took, items, garbled, read>>

ReportFails ==
    /\ Advance("report", "failed")
    /\ receipt.audio = 0 \/ \E spare \in Spares : load + took + spare > TimeLimit * Milli
    /\ UNCHANGED <<measured, items, receipt, garbled, read>>

\* What is printed is not what was measured.
Garble ==
    /\ phase = "printed" /\ ~garbled
    /\ garbled' = TRUE
    /\ \E lie \in Lies :
          \/ /\ \E i \in 1..made :
                   \/ items' = [items EXCEPT ![i].duration = @ + lie]
                   \/ items' = [items EXCEPT ![i].generation = @ + lie]
             /\ UNCHANGED receipt
          \/ /\ \E figure \in DOMAIN receipt :
                   receipt' = [receipt EXCEPT ![figure] = @ + lie]
             /\ UNCHANGED items
    /\ UNCHANGED <<phase, measured, read>>

-----------------------------------------------------------------------------
\* _validated_receipt.  With slack 0 a check may be passed, with slack 1 it is.

Distance(a, b) == IF a < b THEN b - a ELSE a - b

Begin ==
    /\ Advance("printed", "item")
    /\ UNCHANGED <<measured, items, receipt, garbled, read>>

\* _bounded_number
Bounded(x, limit) == 0 <= x /\ x <= limit

\* What an item says of itself: the duration is that of its samples.
ItemAgrees(item, slack) ==
    /\ 1 <= item.samples /\ item.samples <= SegmentLimit * Milli
    /\ Bounded(item.duration, SegmentLimit) /\ item.duration > 0
    /\ Distance(item.duration * Milli, item.samples) + slack <= Milli
    /\ Bounded(item.generation, TimeLimit)
    /\ ~item.faint

TakeItem ==
    /\ Advance("item", IF at < made THEN "item" ELSE "totals")
    /\ ItemAgrees(items[at], 0)
    /\ at' = at + 1
    /\ durations' = durations + items[at].duration
    /\ generations' = generations + items[at].generation
    /\ claimed' = claimed + items[at].samples
    /\ UNCHANGED <<measured, items, receipt, garbled>>

RefuseItem ==
    /\ Advance("item", "invalid")
    /\ ~ItemAgrees(items[at], 1)
    /\ UNCHANGED <<measured, items, receipt, garbled, read>>

\* Mutant of TotalsAgree: the time to generate is not added up again.
TotalsUnadded(slack) ==
    /\ Distance(receipt.audio, durations) + slack <= n
    /\ receipt.load + receipt.generation + slack <= receipt.wall + 1
    /\ Distance(receipt.factor * receipt.audio, Fine * receipt.wall) + slack
          <= Tolerance * receipt.audio

\* The sums, within a millisecond for each item; the parts of the time within
\* the whole; and the factor.
TotalsAgree(slack) ==
    /\ Distance(receipt.audio, durations) + slack <= n
    /\ Distance(receipt.generation, generations) + slack <= n
    /\ receipt.load + receipt.generation + slack <= receipt.wall + 1
    /\ Distance(receipt.factor * receipt.audio, Fine * receipt.wall) + slack
          <= Tolerance * receipt.audio

TotalsBounded ==
    /\ Bounded(receipt.load, TimeLimit) /\ Bounded(receipt.generation, TimeLimit)
    /\ Bounded(receipt.wall, TimeLimit) /\ receipt.wall > 0
    /\ Bounded(receipt.audio, AudioLimit) /\ receipt.audio > 0
    /\ Bounded(receipt.factor, FactorLimit * Fine) /\ receipt.factor > 0

Believe ==
    /\ Advance("totals", "valid")
    /\ TotalsBounded /\ TotalsAgree(0)
    /\ UNCHANGED <<measured, items, receipt, garbled, read>>

Disbelieve ==
    /\ Advance("totals", "invalid")
    /\ ~(TotalsBounded /\ TotalsAgree(1))
    /\ UNCHANGED <<measured, items, receipt, garbled, read>>

Ended == phase \in {"valid", "invalid", "failed"} /\ UNCHANGED receiptVars

ReceiptNext ==
    \/ Load \/ RenderSegment \/ RenderStops \/ Report \/ ReportFails \/ Garble
    \/ Begin \/ TakeItem \/ RefuseItem \/ Believe \/ Disbelieve \/ Ended

ReceiptSpec == ReceiptInit /\ [][ReceiptNext]_receiptVars

-----------------------------------------------------------------------------
\* Properties

\* What rounding alone makes of an honest receipt that is turned down: a
\* segment whose duration or loudness rounds to nothing; so little audio in
\* all (526 ms) that half a millisecond of time moves the factor by more than
\* its tolerance; so little time besides loading and generating (half a
\* millisecond for each segment) that their roundings exceed the whole; and a
\* factor that rounds to nothing or is beyond its limit.
Rounded ==
    \/ \E i \in 1..made : items[i].duration = 0 \/ items[i].faint
    \/ receipt.audio * (2 * Tolerance - 1) <= Fine
    \/ 2 * (wall - load - took) <= n * Milli
    \/ 2 * Fine * wall <= receipt.audio * Milli
    \/ wall >= FactorLimit * receipt.audio * Milli

\* A receipt that was printed as measured is believed, whatever was rounded on
\* the way (engine.py, lines 779-870; benchmark.py, lines 285-378).
HonestReceiptPasses == phase = "invalid" => garbled \/ Rounded

\* A receipt that is believed is consistent as a whole, and not only figure by
\* figure: its audio is that of the samples of all items, and loading and
\* generating all of them has room in its time.
BelievedIsConsistent ==
    phase = "valid" =>
        /\ Distance(receipt.audio * Milli, claimed) <= 2 * n * Milli
        /\ receipt.load + generations <= receipt.wall + 1 + n
=============================================================================
