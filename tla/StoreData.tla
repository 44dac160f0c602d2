----------------------------- MODULE StoreData -----------------------------
(* internal/store/store.go: what both stores keep, and the rules they share.  *)
(*                                                                            *)
(* A row is a record of the columns the stores decide by; settings stands for *)
(* the columns they only carry (gate, ignore paths, retention), report for a  *)
(* file's coverage.  Names are sequences of bytes, because which repos a      *)
(* workspace owns and the order of a listing are questions about bytes.       *)
EXTENDS Integers, Sequences, SequencesExt, FiniteSets, FiniteSetsExt, Functions

Slash == 47  \* the byte of "/"; "0" is the next one

Never == 0   \* the zero time: a stamp never set, a lease nobody holds
Unnamed == "" \* an argument or column left empty

Roles == {"owner", "member"}
GrantForges == {"bitbucket", "gitlab"}
EmptyGrant == [account |-> "", refresh |-> <<>>, broken |-> FALSE]

\* The columns callers give; the stores add ids, stamps and leases.
RepoColumns == {"forge", "slug", "token", "branch", "settings", "visibility", "disabled"}
WorkspaceColumns == {"forge", "prefix", "token", "settings", "installation", "appBroken"}
UserColumns == {"forge", "uuid", "profile"}
UploadColumns == {"repo", "commit", "branch", "pr", "failed", "part"}
ReportColumns == {"repo", "commit", "branch", "pr", "failed", "upload"}

\* Both stores list by forge, whose names sort in this order.
ForgeRank == [bitbucket |-> 1, github |-> 2, gitlab |-> 3]

Below(a, b) ==
  \E n \in 0 .. Len(b) - 1 :
    /\ n <= Len(a) /\ SubSeq(a, 1, n) = SubSeq(b, 1, n)
    /\ n = Len(a) \/ a[n + 1] < b[n + 1]

ByForgeSlug(a, b) ==
  \/ ForgeRank[a.forge] < ForgeRank[b.forge]
  \/ a.forge = b.forge /\ Below(a.slug, b.slug)

ByForgePrefix(a, b) ==
  \/ ForgeRank[a.forge] < ForgeRank[b.forge]
  \/ a.forge = b.forge /\ Below(a.prefix, b.prefix)

Newest(a, b) == a.id > b.id
Oldest(a, b) == a.id < b.id

\* Repo.ReportsPublic, before the instance's own switch.
ReportsPublic(r) == r.visibility = "public" /\ ~ r.disabled

\* Workspace.Owns: the same forge, the slug below the prefix.
Owns(w, r) == r.forge = w.forge /\ IsPrefix(Append(w.prefix, Slash), r.slug)

Nothing == [x \in {} |-> x]
Without(f, gone) == Restrict(f, DOMAIN f \ gone)
With(f, key, value) == [k \in DOMAIN f \cup {key} |-> IF k = key THEN value ELSE f[k]]

\* The columns of a row, and of another those it does not have.
Over(row, other) ==
  [k \in DOMAIN row \cup DOMAIN other |-> IF k \in DOMAIN row THEN row[k] ELSE other[k]]

\* The rows of a table with their ids.
Rows(table) == {Over([id |-> i], table[i]) : i \in DOMAIN table}

\* The rows in the order of before, each at its rank.
Sorted(rows, before(_, _)) ==
  [i \in 1 .. Cardinality(rows) |->
     CHOOSE r \in rows : Cardinality({s \in rows : before(s, r)}) = i - 1]

\* Answers: a value, a row that may be missing as a sequence, or a verdict.
Ok == <<"ok">>
NotFound == <<"not found">>
Failed == <<"error">>
Created(id) == <<"created", id>>
=============================================================================
