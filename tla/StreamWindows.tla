--------------------------- MODULE StreamWindows ---------------------------
(***************************************************************************)
(* The windows of WindowOperator (src/stream/stream_computing.cpp) over a  *)
(* batch of events that arrive in any order.  An event is <<key, time>>.   *)
(***************************************************************************)
EXTENDS Integers, Sequences, FiniteSets, FiniteSetsExt, SequencesExt

CONSTANTS EventKeys,
          Times,          \* timestamps
          Size,           \* config_.size
          Slide,          \* config_.slide, 0 when it is not set
          Gap,            \* config_.gap
          MaxBatch        \* bound on the length of a batch

VARIABLE input            \* the events of a batch, as they arrived

\* The batch sorted by time; std::sort keeps no order among equal times.
Sorted(events) == SortSeq(events, LAMBDA a, b : a[2] < b[2])

Window(start, end, events) == [start |-> start, end |-> end, events |-> events]

\* One event of create_tumbling_windows: it starts a window of its own when it
\* is past the current one.
Tumble(windows, e) ==
  IF windows = <<>> \/ e[2] >= Last(windows).end
  THEN Append(windows, Window(e[2], e[2] + Size, <<e>>))
  ELSE [windows EXCEPT ![Len(windows)].events = Append(@, e)]

TumblingWindows(events) == FoldLeft(Tumble, <<>>, Sorted(events))

SlideInterval == IF Slide > 0 THEN Slide ELSE Size

\* create_sliding_windows: from the first event to the last, the windows that
\* hold something.
SlidingWindows(events) ==
  LET sorted == Sorted(events)
      starts == {Head(sorted)[2] + i * SlideInterval : i \in 0..(Last(sorted)[2] - Head(sorted)[2])}
      at(s) == SelectSeq(sorted, LAMBDA e : s <= e[2] /\ e[2] < s + Size)
  IN IF events = <<>> THEN {}
     ELSE {Window(s, s + Size, at(s)) : s \in {t \in starts : t <= Last(sorted)[2] /\ at(t) # <<>>}}

\* One event of create_session_windows, compared with the session's first event.
SessionFromStart(windows, e) ==
  IF windows = <<>> \/ e[2] - Last(windows).start > Gap
  THEN Append(windows, Window(e[2], e[2], <<e>>))
  ELSE [windows EXCEPT ![Len(windows)] = Window(@.start, e[2], Append(@.events, e))]

\* One event of create_session_windows: it goes on with the session unless the
\* gap to the session's last event is too long.
Session(windows, e) ==
  IF windows = <<>> \/ e[2] - Last(windows).end > Gap
  THEN Append(windows, Window(e[2], e[2], <<e>>))
  ELSE [windows EXCEPT ![Len(windows)] = Window(@.start, e[2], Append(@.events, e))]

\* Sessions are made for every key (key_selector "key").
SessionWindows(events, k) ==
  FoldLeft(Session, <<>>, Sorted(SelectSeq(events, LAMBDA e : e[1] = k)))

Arrive(k, t) == Len(input) < MaxBatch /\ input' = Append(input, <<k, t>>)

WindowsInit == input = <<>>

WindowsNext == \E k \in EventKeys, t \in Times : Arrive(k, t)

-----------------------------------------------------------------------------
Flat(windows) == FlattenSeq([i \in DOMAIN windows |-> windows[i].events])

\* Tumbling windows do not overlap, every event of the batch is in exactly one,
\* and it lies in the window's time.
TumblingPartitions ==
  LET ws == TumblingWindows(input)
  IN /\ Len(Flat(ws)) = Len(input) /\ ToSet(Flat(ws)) = ToSet(input)
     /\ \A i \in DOMAIN ws : \A e \in ToSet(ws[i].events) : ws[i].start <= e[2] /\ e[2] < ws[i].end
     /\ \A i \in 1..(Len(ws) - 1) : ws[i].end <= ws[i + 1].start

\* Sliding windows that slide by no more than their size miss no event.
SlidingCovers ==
  Slide <= Size => UNION {ToSet(w.events) : w \in SlidingWindows(input)} = ToSet(input)

\* Two neighbouring events of a key are in one session exactly when they are at
\* most the gap apart, however far the session has grown.
SessionsSplitAtGaps ==
  \A k \in EventKeys :
    LET sorted == Sorted(SelectSeq(input, LAMBDA e : e[1] = k))
        ws == SessionWindows(input, k)
    IN /\ Flat(ws) = sorted
       /\ \A i \in 1..(Len(sorted) - 1) :
            (sorted[i + 1][2] - sorted[i][2] > Gap) <=>
              \E j \in DOMAIN ws : ws[j].end = sorted[i][2] /\ ws[j].end # sorted[i + 1][2]
                                   /\ j < Len(ws) /\ ws[j + 1].start = sorted[i + 1][2]

\* The three kinds of window cut any batch, in any order of arrival, without
\* losing an event or putting one where it does not belong.
WindowsCover == TumblingPartitions /\ SlidingCovers /\ SessionsSplitAtGaps
=============================================================================
