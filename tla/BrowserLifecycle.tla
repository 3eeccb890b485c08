--------------------------- MODULE BrowserLifecycle ---------------------------
(***************************************************************************)
(* What the session manager promises about browsers: a profile has at most *)
(* one, and a new one starts only when the last one is gone.               *)
(***************************************************************************)

CONSTANT Profiles

VARIABLE browser  \* the browser process of each profile

BrowserInit == browser = [p \in Profiles |-> "none"]

Turn(p, from, to) == browser[p] = from /\ browser' = [browser EXCEPT ![p] = to]

BrowserNext ==
    \E p \in Profiles :
        \/ Turn(p, "none", "starting")
        \/ Turn(p, "starting", "running") \/ Turn(p, "starting", "none")
        \/ Turn(p, "running", "closing")
        \/ Turn(p, "closing", "none")

BrowserSpec == BrowserInit /\ [][BrowserNext]_browser

===============================================================================
