--------------------------- MODULE MCAdminConsole ---------------------------
(* AdminConsole on small instances: see the README for the bounds. *)
EXTENDS AdminConsole, TLC

CONSTANTS w1, w2, w3, r1, r2, r3

MCSeedWorkspaces == <<w1, w2>>
MCEndpoints == {"get_settings", "patch_settings", "list_jobs", "upload", "reprocess"}

\* The first request always logs in, the last names workspace w; w3 is not the user's.
\* A plan that starts at the last instant, or after the last restart, has no more.
Plan(e2, e3, w, start, done) ==
  [endpoint  |-> r1 :> "login" @@ r2 :> e2 @@ r3 :> e3,
   workspace |-> r1 :> w1 @@ r2 :> w1 @@ r3 :> w,
   now |-> start, restarts |-> done]
MCPlans ==
  {Plan("login", "me", w1, 0, 1), Plan("me", "me", w1, 1, 0),
   Plan("login", "get_settings", w2, 2, 1), Plan("patch_settings", "get_settings", w3, 2, 1),
   Plan("patch_settings", "patch_settings", w1, 2, 0),
   Plan("upload", "reprocess", w2, 2, 1), Plan("upload", "upload", w1, 2, 1),
   Plan("list_jobs", "reprocess", w1, 2, 1)}

MCSeedSettings == ("size" :> 3 @@ "overlap" :> 1)
\* Two that exclude one another, one that is refused, one without a field.
MCPatches == {("size" :> 2), ("overlap" :> 2), ("size" :> 1), <<>>}
=============================================================================
