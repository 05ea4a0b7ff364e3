-------------------------------- MODULE MCUblkd -------------------------------
(***************************************************************************)
(* One writable image, one read-only image and three device ids.  Without a   *)
(* pool both handlers serve every request.  With one, the first serves the     *)
(* requests that take, give back or start a pooled device, and the second      *)
(* creates and deletes devices at the same time, so that one handler at a      *)
(* time works on the pool.  With MCIssuesPool both handlers do.                *)
(***************************************************************************)
EXTENDS Ublkd

CONSTANTS h1, h2, w, r

MCHandlers == {h1, h2}
MCIssuesPool == 1 :> [g \in MCHandlers |-> {"acquire", "release"}]
MCIssuesOne ==
    h1 :> {"acquire", "release", "resize", "shared"} @@ h2 :> {"add", "del"}
MCIssues ==
    0 :> [g \in MCHandlers |-> {"add", "del", "acquire", "shared", "release", "resize"}]
      @@ 1 :> MCIssuesOne
MCIssuesWriters == 1 :> MCIssuesOne
MCImages == {w, r}
MCWritable == {w}
MCIds == 0 .. 2
===============================================================================
