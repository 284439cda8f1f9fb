------------------------------- MODULE Shares -------------------------------
(* Share links: ShareService (shares.py) and the rows it keeps (db.py), the  *)
(* endpoints that call it (api/admin.py, api/public.py), and the converted   *)
(* files of a share (cache_files.py).                                        *)
(*                                                                           *)
(* The endpoints of the administrator run on worker threads.  Each of them   *)
(* checks the row in one transaction and changes it in another one, so other *)
(* threads and the downloads, on the event loop, come in between.            *)
(*                                                                           *)
(* Left out: the counters of record_share_access, which only the list of     *)
(* shares reads, and allow_clash, which never changes: every share here may  *)
(* be converted.                                                             *)
EXTENDS Integers, FiniteSets

CONSTANTS
    Threads,            \* worker threads
    Clients,            \* downloads
    Ids,                \* shares
    Tokens,             \* what their links contain
    None,               \* no share, no token
    SecretsAvailable    \* the encryption key is present

VARIABLES
    shares,     \* the rows, by id
    files,      \* the ids that have converted files
    issued,     \* tokens that were generated
    created,    \* ids that were generated
    pc,         \* where each thread is
    work,       \* the share it works on, and the token it generated
    client,     \* what each download is doing
    left        \* history: ids whose files were written after the share was
                \* deleted, or whose deletion failed or was cut short by a restart

rows == <<shares, issued, created>>
vars == <<rows, files, pc, work, client, left>>

Share == [token: Tokens, sealed: Tokens \cup {None}, revoked: BOOLEAN, expired: BOOLEAN]

ASSUME SharesAssumption ==
    /\ None \notin Tokens /\ None \notin Ids /\ None \notin Share
    /\ SecretsAvailable \in BOOLEAN

Quiet == [pc |-> "idle", id |-> None, token |-> None]

ShTypeOK ==
    /\ shares \in [Ids -> Share \cup {None}]
    /\ files \subseteq Ids /\ created \subseteq Ids /\ left \subseteq Ids
    /\ issued \subseteq Tokens
    /\ pc \in [Threads -> {"idle", "rotate", "revoke", "renew", "delete", "remove"}]
    /\ work \in [Threads -> [id: Ids \cup {None}, token: Tokens \cup {None}]]
    /\ client \in [Clients -> [pc: {"idle", "raw", "converted", "requested", "converting"},
                               id: Ids \cup {None}, token: Tokens \cup {None}]]
    \* A token opens one share: token_hash is unique.
    /\ \A i, j \in Ids :
        shares[i] # None /\ shares[j] # None /\ shares[i].token = shares[j].token => i = j

Nothing == [id |-> None, token |-> None]

Init ==
    /\ shares = [i \in Ids |-> None]
    /\ files = {} /\ issued = {} /\ created = {} /\ left = {}
    /\ pc = [t \in Threads |-> "idle"]
    /\ work = [t \in Threads |-> Nothing]
    /\ client = [c \in Clients |-> Quiet]

-----------------------------------------------------------------------------
\* The row a token is found in, or None.
RowOf(tok) ==
    IF \E i \in Ids : shares[i] # None /\ shares[i].token = tok
    THEN CHOOSE i \in Ids : shares[i] # None /\ shares[i].token = tok
    ELSE None

Live(tok) == RowOf(tok) # None /\ ~shares[RowOf(tok)].revoked

\* resolve()
Resolves(tok) == Live(tok) /\ ~shares[RowOf(tok)].expired

\* seal(), if there is a key.
Sealed(tok) == IF SecretsAvailable THEN tok ELSE None

Usable(i) == shares[i] # None /\ ~shares[i].revoked /\ ~shares[i].expired

\* UPDATE ... WHERE id: nothing happens to a row that was deleted meanwhile.
Update(i, row) == [shares EXCEPT ![i] = IF @ = None THEN None ELSE row]

-----------------------------------------------------------------------------
\* The administrator.

\* secrets.token_urlsafe: a token nobody has seen.
FreshTokens == Tokens \ issued

Create(i, tok) ==
    /\ i \notin created /\ tok \in FreshTokens
    /\ shares' = [shares EXCEPT ![i] = [token |-> tok, sealed |-> Sealed(tok),
                                        revoked |-> FALSE, expired |-> FALSE]]
    /\ created' = created \cup {i}
    /\ issued' = issued \cup {tok}
    /\ UNCHANGED <<files, pc, work, client, left>>

\* The check at the start of rotate(), revoke(), renew() or delete().
Check(t, i, operation) ==
    /\ pc[t] = "idle"
    /\ CASE operation = "rotate" -> Usable(i)
         [] operation = "renew" -> shares[i] # None /\ ~shares[i].revoked
         [] OTHER -> shares[i] # None
    /\ IF operation = "rotate"
       THEN \E tok \in FreshTokens :
                /\ work' = [work EXCEPT ![t] = [id |-> i, token |-> tok]]
                /\ issued' = issued \cup {tok}
       ELSE work' = [work EXCEPT ![t].id = i] /\ UNCHANGED issued
    /\ pc' = [pc EXCEPT ![t] = operation]
    /\ UNCHANGED <<shares, files, created, client, left>>

Finish(t, operation) ==
    /\ pc[t] = operation
    /\ pc' = [pc EXCEPT ![t] = "idle"]
    /\ work' = [work EXCEPT ![t] = Nothing]

\* Deviation: the sealed token is left for a second statement.
RotateHashOnly(t) ==
    /\ Finish(t, "rotate")
    /\ LET i == work[t].id
       IN  shares' = Update(i, [shares[i] EXCEPT !.token = work[t].token])
    /\ UNCHANGED <<files, issued, created, client, left>>

\* rotate_share: hash and sealed token in one statement.
Rotate(t) ==
    /\ Finish(t, "rotate")
    /\ LET i == work[t].id
       IN  shares' = Update(i, [shares[i] EXCEPT !.token = work[t].token,
                                                 !.sealed = Sealed(work[t].token)])
    /\ UNCHANGED <<files, issued, created, client, left>>

\* revoke_share
Revoke(t) ==
    /\ Finish(t, "revoke")
    /\ LET i == work[t].id IN shares' = Update(i, [shares[i] EXCEPT !.revoked = TRUE])
    /\ UNCHANGED <<files, issued, created, client, left>>

\* Deviation: a renewed share is as good as new.
RenewFully(t) ==
    /\ Finish(t, "renew")
    /\ LET i == work[t].id
       IN  shares' = Update(i, [shares[i] EXCEPT !.expired = FALSE, !.revoked = FALSE])
    /\ UNCHANGED <<files, issued, created, client, left>>

\* update_share_expiry
Renew(t) ==
    /\ Finish(t, "renew")
    /\ LET i == work[t].id IN shares' = Update(i, [shares[i] EXCEPT !.expired = FALSE])
    /\ UNCHANGED <<files, issued, created, client, left>>

\* delete_share
Delete(t) ==
    /\ pc[t] = "delete"
    /\ shares' = [shares EXCEPT ![work[t].id] = None]
    /\ pc' = [pc EXCEPT ![t] = "remove"]
    /\ UNCHANGED <<files, issued, created, work, client, left>>

\* Deviation: the files are the business of the next refresh.
RemoveNothing(t) ==
    /\ Finish(t, "remove")
    /\ UNCHANGED <<rows, files, client, left>>

\* remove_converted, whose unlink errors are swallowed.
RemoveConverted(t) ==
    /\ Finish(t, "remove")
    /\ \/ files' = files \ {work[t].id} /\ left' = left \ {work[t].id}
       \/ left' = left \cup {work[t].id} /\ UNCHANGED files
    /\ UNCHANGED <<rows, client>>

-----------------------------------------------------------------------------
\* Downloads.

\* The token is resolved; then the download waits for refresh_if_stale.
Request(c, tok, kind) ==
    /\ client[c].pc = "idle"
    /\ Resolves(tok)
    /\ client' = [client EXCEPT ![c] = [pc |-> kind, id |-> RowOf(tok), token |-> tok]]
    /\ UNCHANGED <<rows, files, pc, work, left>>

Serve(c) == client' = [client EXCEPT ![c] = Quiet]

\* The raw subscription, or a fresh converted file.
ServeFromCache(c) ==
    /\ \/ client[c].pc = "raw"
       \/ client[c].pc = "converted" /\ client[c].id \in files
    /\ Serve(c)
    /\ UNCHANGED <<rows, files, pc, work, left>>

\* render() asks the converter process.
AskConverter(c) ==
    /\ client[c].pc = "converted"
    /\ client' = [client EXCEPT ![c].pc = "requested"]
    /\ UNCHANGED <<rows, files, pc, work, left>>

\* Which fetches /raw/{token}, where the token is resolved once more.
ConverterReads(c) ==
    /\ client[c].pc = "requested"
    /\ IF Resolves(client[c].token)
       THEN client' = [client EXCEPT ![c].pc = "converting"]
       ELSE Serve(c)
    /\ UNCHANGED <<rows, files, pc, work, left>>

\* Its answer is written to the file of the share and served, or it failed.
FinishRender(c, ok) ==
    /\ client[c].pc = "converting"
    /\ IF ok
       THEN LET i == client[c].id
            IN  /\ files' = files \cup {i}
                /\ left' = IF shares[i] = None THEN left \cup {i} ELSE left
       ELSE UNCHANGED <<files, left>>
    /\ Serve(c)
    /\ UNCHANGED <<rows, pc, work>>

-----------------------------------------------------------------------------
Expire(i) ==
    /\ Usable(i)
    /\ shares' = [shares EXCEPT ![i].expired = TRUE]
    /\ UNCHANGED <<files, issued, created, pc, work, client, left>>

\* A refresh clears all converted files, but for those that cannot be unlinked.
ClearConverted ==
    /\ files' \in SUBSET files
    /\ left' = left \cap files'
    /\ UNCHANGED <<rows, pc, work, client>>

Restart ==
    /\ pc' = [t \in Threads |-> "idle"]
    /\ work' = [t \in Threads |-> Nothing]
    /\ client' = [c \in Clients |-> Quiet]
    /\ left' = left \cup {work[t].id : t \in {u \in Threads : pc[u] = "remove"}}
    /\ UNCHANGED <<rows, files>>

Next ==
    \/ \E i \in Ids, tok \in Tokens : Create(i, tok)
    \/ \E t \in Threads, i \in Ids, operation \in {"rotate", "revoke", "renew", "delete"} :
        Check(t, i, operation)
    \/ \E t \in Threads :
        Rotate(t) \/ Revoke(t) \/ Renew(t) \/ Delete(t) \/ RemoveConverted(t)
    \/ \E c \in Clients :
        \/ \E tok \in Tokens, kind \in {"raw", "converted"} : Request(c, tok, kind)
        \/ ServeFromCache(c) \/ AskConverter(c) \/ ConverterReads(c)
        \/ \E ok \in BOOLEAN : FinishRender(c, ok)
    \/ \E i \in Ids : Expire(i)
    \/ ClearConverted
    \/ Restart

Spec == Init /\ [][Next]_vars

-----------------------------------------------------------------------------
\* What a rotation has generated and not written yet.
Promised(tok) == \E t \in Threads : pc[t] = "rotate" /\ work[t].token = tok

LinkState(tok) ==
    CASE tok \notin issued -> "unknown"
      [] Promised(tok) -> "promised"
      [] Resolves(tok) -> "working"
      [] Live(tok) /\ ~Resolves(tok) -> "expired"
      [] OTHER -> "dead"

LinkStates == [tok \in Tokens |-> LinkState(tok)]

\* The rows, with the checks and the writes of overlapping requests, keep what is
\* promised of a link over its whole life (docs/openclash.md:22-25).
Kept == INSTANCE Links WITH Links <- Tokens, state <- LinkStates
ImplementsLinks == Kept!Spec

\* A link that was rotated away, revoked or deleted never works again, whatever
\* renewals and rotations were checked before and written after it (docs/
\* openclash.md:22-25); expiry alone is undone by a renewal.
DeadLinksStayDead ==
    [][\A tok \in Tokens :
        Live(tok)' => Live(tok) \/ tok \notin issued \/ \E t \in Threads : work[t].token = tok]_vars

\* The link that the list of shares shows is the one that works: the sealed
\* token is the token whose hash is stored, after overlapping rotations too.
ShownLinkWorks == \A i \in Ids : shares[i] # None => shares[i].sealed \in {None, shares[i].token}

\* A deleted share leaves no converted file, unless a render was overtaken by the
\* deletion, the process died in it, or its files could not be unlinked.
FilesHaveShares ==
    \A i \in files :
        \/ shares[i] # None
        \/ i \in left
        \/ \E t \in Threads : pc[t] = "remove" /\ work[t].id = i
=============================================================================
