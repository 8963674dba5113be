--------------------------- MODULE SystemSummary ---------------------------
(***************************************************************************)
(* The system summary srtop publishes above its table                      *)
(* (apps/srtop/src/summary.rs): what each line says, in which role, and    *)
(* whether the bar beside it has a value. Wording is left out; a line that *)
(* states no figure is told apart from one that does.                      *)
(***************************************************************************)
EXTENDS Integers, Sequences

\* A line says a state, <<"warming up">>, or a figure with its numbers. A line,
\* and the tenths of a percent its bar is filled to, if it has a bar with a value.
NoValue == -1
Line(says, role)       == [says |-> says, role |-> role, bar |-> NoValue]
Figure(says, tenths)   == [says |-> says, role |-> "body", bar |-> tenths]

\* A figure the sample could not state.
GapLine(gap) ==
    Line(<<gap>>, IF gap = "not provided" THEN "body" ELSE "warning")

\* metric::share_tenths: no share of nothing, and none above the whole.
HasShare(part, whole) == whole > 0 /\ part >= 0 /\ part <= whole
ShareTenths(part, whole) == (part * 1000) \div whole

\* The overall CPU line: an interval, or the state that is not one.
CpuLine(cpu) ==
    CASE cpu.state = "measured" /\ HasShare(cpu.busy, cpu.total) ->
             Figure(<<"share", cpu.busy, cpu.total>>, ShareTenths(cpu.busy, cpu.total))
      [] cpu.state = "measured" /\ ~HasShare(cpu.busy, cpu.total) -> Line(<<"no interval">>, "body")
      [] cpu.state = "interrupted" -> Line(<<"no interval">>, "body")
      [] cpu.state = "warming up" -> Line(<<"warming up">>, "body")
      [] OTHER -> GapLine(cpu.state)

\* memory and swap: the used part of a total.
UsageLine(figure) ==
    IF figure.gap # "none" THEN GapLine(figure.gap)
    ELSE IF HasShare(figure.total - figure.free, figure.total)
    THEN Figure(<<"used", figure.free, figure.total>>,
                ShareTenths(figure.total - figure.free, figure.total))
    ELSE GapLine("unusable")

SwapLine(figure) ==
    IF figure.gap = "none" /\ figure.total = 0 /\ figure.free = 0
    THEN Line(<<"none configured">>, "body")
    ELSE UsageLine(figure)

\* load and uptime
FigureLine(figure) ==
    IF figure.gap # "none" THEN GapLine(figure.gap) ELSE Line(<<"figure">>, "body")

NoMatches == -1
ProcessesLine(count, matches) == Line(<<"listed", count, matches>>, "body")

\* The freshness line: when the figures were sampled, and whether the
\* collector is failing.
NoError == "none"
FreshnessLine(time, error) ==
    Line(<<"sampled", time, error>>, IF error = NoError THEN "status" ELSE "warning")

-----------------------------------------------------------------------------

NoSampleYet == [time |-> 0]

Lines == {"cpu", "memory", "swap", "load", "uptime", "processes", "freshness"}

\* summarize: of a shell that never samples, of one with nothing to show yet,
\* and of the last successful sample.
NotStarted ==
    [line \in Lines |-> IF line = "freshness" THEN Line(<<"not started">>, "status")
                        ELSE Line(<<"not sampled">>, "body")]

Collecting(sample, error, matches) ==
    [line \in Lines |->
        CASE line = "freshness" -> FreshnessLine(sample.time, error)
          [] line # "freshness" /\ sample = NoSampleYet -> Line(<<"not sampled">>, "body")
          [] line = "cpu" /\ sample # NoSampleYet -> CpuLine(sample.cpu)
          [] line = "memory" /\ sample # NoSampleYet -> UsageLine(sample.memory)
          [] line = "swap" /\ sample # NoSampleYet -> SwapLine(sample.swap)
          [] line \in {"load", "uptime"} /\ sample # NoSampleYet -> FigureLine(sample[line])
          [] OTHER -> ProcessesLine(sample.count, matches)]

\* changes: only the properties a client would see change, in node order.
LineOrder == <<"cpu", "memory", "swap", "load", "uptime", "processes", "freshness">>
SummaryChanges(published, target) ==
    SelectSeq([i \in DOMAIN LineOrder |-> [line |-> LineOrder[i], is |-> target[LineOrder[i]]]],
              LAMBDA change : published[change.line] # change.is)
=============================================================================
