------------------------------ MODULE MCBackoff ------------------------------
(* Backoff with the constants of the program. *)
EXTENDS Backoff

OneSecond == 3906250
OneMinute == 60 * OneSecond
FiveMinutes == 300 * OneSecond

(* Nothing usable; 0, 1, 5 s, a little below and exactly the cap, beyond it, *)
(* days; negative; dates in the past, within the cap and beyond it.          *)
UsualHeaders ==
    {NoHeader, Seconds(0, 0), Seconds(1, 0), Seconds(5, 0), Seconds(299, 0),
     Seconds(300, 0), Seconds(301, 0), Seconds(169, 9), Seconds(-5, 0),
     Date(-100), Date(30), Date(400)}

(* No answer; delivered; a redirect; the classes of a failure. *)
UsualStatuses == {0, 204, 302, 400, 408, 429, 500, 503}
===============================================================================
