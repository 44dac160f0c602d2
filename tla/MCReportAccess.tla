-------------------------- MODULE MCReportAccess --------------------------
(* A slug two workspaces deep, a stranger's workspace beside it; what is      *)
(* asked falls into families: reads, settings, uploads, MCP sign-in.          *)
EXTENDS ReportAccess, TLC

MCOwning == <<"sub", "acme">>

Cookie(kind, u) == [kind |-> kind, cred |-> u]
Key(kind, key, oidc) == [kind |-> kind, cred |-> key, oidc |-> oidc, forgeId |-> 0, issuer |-> ""]
Signed(kind, id, issuer) ==
  [kind |-> kind, cred |-> 0, oidc |-> "id", forgeId |-> id, issuer |-> issuer]
Keys(kind) ==
  {Key(kind, key, "none") : key \in {1, 2, 4, 9}}
    \cup {Key(kind, 0, oidc) : oidc \in {"slug", "other"}}
    \cup {Signed(kind, 1, "sub"), Signed(kind, 2, "sub"), Signed(kind, 1, "other")}
Reads ==
  {Cookie("page", u) : u \in {"ann", Nobody}} \cup {Cookie("dashboard", "ann")}
    \cup Keys("api") \cup {Key("api", 0, "none")}

Settings(asks) == {[kind |-> "settings", cred |-> "ann", asks |-> a] : a \in asks}
OfWorkspace(asks) ==
  {[kind |-> "workspace", cred |-> "ann", workspace |-> "acme", asks |-> a] : a \in asks}

MCRedirectsOf == [desk |-> {"local"}, web |-> {"site", "alt"}, odd |-> {"script"}]
MCUriOf ==
  [local |-> [scheme |-> "http", host |-> "localhost", bare |-> TRUE],
   site |-> [scheme |-> "https", host |-> "site", bare |-> TRUE],
   alt |-> [scheme |-> "cursor", host |-> "", bare |-> TRUE],
   script |-> [scheme |-> "javascript", host |-> "", bare |-> TRUE]]
Exchange(code, client, redirect, verifier, ours) ==
  [kind |-> "exchange", code |-> code, client |-> client, redirect |-> redirect,
   verifier |-> verifier, ours |-> ours]
Approval(client, redirect, challenge) ==
  [kind |-> "approve", cred |-> "ann", client |-> client, redirect |-> redirect,
   challenge |-> challenge, ours |-> TRUE]
SignIns ==
  {Approval("desk", "", "x"), Approval("web", "site", "x"), Approval("web", "", "x"),
   Approval("forged", "site", "x"), Approval("odd", "", "x"), Approval("web", "site", "")}
    \cup {Exchange(5, "", "", "x", TRUE), Exchange(5, "web", "site", "x", TRUE),
          Exchange(5, "desk", "", "x", TRUE), Exchange(5, "web", "alt", "x", TRUE),
          Exchange(5, "web", "site", "y", TRUE), Exchange(5, "", "", "x", FALSE)}
    \cup {[kind |-> "tool", cred |-> 6]}
Registrations == {[kind |-> "register", client |-> id] : id \in DOMAIN MCRedirectsOf}

Asked(calls, atOnce, bound) ==
  [calls |-> calls, atOnce |-> atOnce, changes |-> bound, public |-> TRUE]
MCInstances ==
  {Asked(Reads, 1, 2), [Asked(Reads, 1, 2) EXCEPT !.public = FALSE],
   Asked(Settings({"view", "save", "rotate", "reveal", "delete"}), 1, 3),
   Asked(Settings({"save", "rotate", "delete"}), 2, 1),
   Asked(OfWorkspace({"view", "save", "rotate", "reveal", "delete"}), 1, 3),
   Asked(OfWorkspace({"save", "rotate", "delete"}), 2, 1),
   Asked(Keys("upload"), 1, 2), Asked(Keys("upload"), 2, 1),
   Asked(Registrations, 1, 0), Asked(SignIns, 1, 2),
   Asked({c \in SignIns : c.kind = "approve" => c = Approval("web", "site", "x")}, 2, 1)}

\* Two requests that swap their slots are the same two requests.
Swaps == Permutations(Slot)
=============================================================================
