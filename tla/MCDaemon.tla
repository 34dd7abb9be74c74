------------------------------ MODULE MCDaemon ------------------------------
(* Instances of Daemon. *)
EXTENDS Daemon

T(time, yday, day, hour, min) == [time |-> time, yday |-> yday, day |-> day, hour |-> hour, min |-> min]

\* A weekday, a holiday and a Sunday; prime time is from 4 to 18 on weekdays,
\* from 22 to 2 on Sundays.
Days == <<T(2, 10, "weekday", 3, 0), T(4, 10, "weekday", 12, 0), T(6, 10, "weekday", 20, 0),
          T(8, 11, "weekday", 5, 0), T(10, 11, "weekday", 8, 0), T(12, 12, "sunday", 1, 0),
          T(14, 12, "sunday", 12, 0), T(16, 13, "weekday", 4, 30)>>
Line(word, first, second) == [word |-> word, first |-> first, second |-> second]
HolidayLines ==
  <<Line("YEAR", 2015, 0), Line("weekday", 400, 1800), Line("saturday", 2500, 2400), Line("sunday", 2200, 200),
    Line("holiday", 1, 0), Line("holiday", 12, 0)>>
TwoDedicated == {[from |-> 3, to |-> 7], [from |-> 15, to |-> 19]}
OneSlave == <<"s">>
=============================================================================
