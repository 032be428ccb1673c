----------------------------- MODULE PromoWindow -----------------------------
(***************************************************************************)
(* The daily windows of a campaign (promotions.go): written as clock times *)
(* of the campaign's zone, normalized to minutes of the UTC day when they  *)
(* are fetched, and matched in the browser (panel.html) against a UTC      *)
(* clock that the browser itself carries on.                               *)
(***************************************************************************)
EXTENDS Integers

Day == 1440
Minutes == 0 .. Day - 1

\* parseClockMinute accepts "0:00" to "23:59", and "24:00".
Clocks == 0 .. Day
parseClockMinute(hour, minute) == 60 * hour + minute
ClockTexts == {c \in (0 .. 24) \X (0 .. 59) : c[1] = 24 => c[2] = 0}

\* An equal pair is a whole day.  offset: minutes east of UTC.
normalizePromoWindow(start, end, offset) ==
    LET length == (end - start) % Day
    IN  [startMin |-> (start - offset) % Day,
         durationMin |-> IF length = 0 THEN Day ELSE length]

\* The browser's test of one window (panel.html).
promoActive(w, minute) ==
    w.durationMin >= Day \/ ((minute - w.startMin) + Day) % Day < w.durationMin

\* The browser's clock: the minute the server sent, and the whole minutes since.
promoNow(clock, elapsed) == (clock + (elapsed \div 60)) % Day

-----------------------------------------------------------------------------
(* What a window says, read off the clock on the campaign's wall.          *)

LocalMinute(minute, offset) == (minute + offset) % Day

RunsAt(start, end, local) ==
    LET s == start % Day
        e == end % Day
    IN  \/ s = e
        \/ s < e /\ s <= local /\ local < e
        \/ s > e /\ (s <= local \/ local < e)

=============================================================================
