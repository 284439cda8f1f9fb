---------------------------- MODULE SharesProofs ----------------------------
(* Proofs about Shares, for any threads, downloads, shares and tokens, with  *)
(* a key to seal tokens or without.                                          *)
EXTENDS Shares, TLAPS

Pcs == {"idle", "rotate", "revoke", "renew", "delete", "remove"}
Work == [id: Ids \cup {None}, token: Tokens \cup {None}]
Download == [pc: {"idle", "raw", "converted", "requested", "converting"},
             id: Ids \cup {None}, token: Tokens \cup {None}]

-----------------------------------------------------------------------------
\* The invariant.

\* Whoever is at work has a share to work on.
BusyHaveShares ==
    /\ \A t \in Threads : pc[t] # "idle" => work[t].id \in Ids
    /\ \A c \in Clients : client[c].pc # "idle" => client[c].id \in Ids

\* A token that a rotation is about to write is in no row, and nobody else's.
TokensAreFresh ==
    /\ \A i \in Ids : shares[i] # None => shares[i].token \in issued
    /\ \A t \in Threads : pc[t] = "rotate" =>
        /\ work[t].token \in issued
        /\ \A i \in Ids : shares[i] # None => shares[i].token # work[t].token
        /\ \A u \in Threads \ {t} : pc[u] = "rotate" => work[u].token # work[t].token

Inv == ShTypeOK /\ BusyHaveShares /\ TokensAreFresh /\ ShownLinkWorks /\ FilesHaveShares

\* The parts of the invariant by what they are about.
RowTypes == shares \in [Ids -> Share \cup {None}]
TokenUnique ==
    \A i, j \in Ids :
        shares[i] # None /\ shares[j] # None /\ shares[i].token = shares[j].token => i = j
TaskTypes ==
    /\ pc \in [Threads -> Pcs] /\ work \in [Threads -> Work]
    /\ client \in [Clients -> Download]
SetTypes ==
    /\ files \subseteq Ids /\ created \subseteq Ids /\ left \subseteq Ids
    /\ issued \subseteq Tokens

LEMMA TypeParts == ShTypeOK <=> RowTypes /\ TokenUnique /\ TaskTypes /\ SetTypes
  BY DEF ShTypeOK, RowTypes, TokenUnique, TaskTypes, SetTypes, Pcs, Work, Download

LEMMA RowParts ==
  Inv <=> /\ RowTypes /\ TokenUnique /\ TaskTypes /\ SetTypes
          /\ BusyHaveShares /\ TokensAreFresh /\ ShownLinkWorks /\ FilesHaveShares
  BY TypeParts DEF Inv

LEMMA NextParts ==
  ASSUME RowTypes', TokenUnique', TaskTypes', SetTypes',
         BusyHaveShares', TokensAreFresh', ShownLinkWorks', FilesHaveShares'
  PROVE  Inv'
  BY DEF Inv, ShTypeOK, RowTypes, TokenUnique, TaskTypes, SetTypes, Pcs, Work, Download

LEMMA Initially == Init => Inv
  <1> SUFFICES ASSUME Init PROVE Inv
    OBVIOUS
  <1>1. RowTypes /\ TokenUnique /\ SetTypes
    BY DEF Init, RowTypes, TokenUnique, SetTypes
  <1>2. TaskTypes
    BY DEF Init, TaskTypes, Pcs, Work, Download, Nothing, Quiet
  <1>3. BusyHaveShares /\ TokensAreFresh /\ ShownLinkWorks /\ FilesHaveShares
    BY DEF Init, BusyHaveShares, TokensAreFresh, ShownLinkWorks, FilesHaveShares, Quiet
  <1>4. QED
    BY <1>1, <1>2, <1>3, RowParts

-----------------------------------------------------------------------------
\* The steps.

\* A step of a thread that leaves the operation: a row it changed, if it is
\* there, got new contents.
LEMMA RowWritten ==
  ASSUME Inv, NEW t \in Threads, NEW operation \in {"rotate", "revoke", "renew"},
         Finish(t, operation),
         NEW row, shares' = Update(work[t].id, row),
         shares[work[t].id] # None =>
            /\ row \in Share
            /\ row.sealed \in {None, row.token}
            /\ \/ row.token = shares[work[t].id].token
               \/ operation = "rotate" /\ row.token = work[t].token,
         UNCHANGED <<files, issued, created, client, left>>
  PROVE  Inv'
  <1>typed. RowTypes /\ TokenUnique /\ TaskTypes /\ SetTypes
    BY RowParts
  <1> DEFINE id == work[t].id
  <1>1. id \in Ids /\ pc[t] = operation
    BY DEF Inv, BusyHaveShares, Finish
  <1>2. /\ shares'[id] = IF shares[id] = None THEN None ELSE row
        /\ \A i \in Ids \ {id} : shares'[i] = shares[i]
        /\ RowTypes'
    BY <1>typed, <1>1 DEF RowTypes, Update
  <1>3. TaskTypes'
    BY <1>typed DEF Finish, TaskTypes, Pcs, Work, Nothing
  <1>4. \A u \in Threads \ {t} : pc'[u] = pc[u] /\ work'[u] = work[u]
    BY <1>typed DEF Finish, TaskTypes
  <1>5. pc'[t] = "idle"
    BY <1>typed DEF Finish, TaskTypes
  <1>6. \A i \in Ids : shares'[i] # None <=> shares[i] # None
    BY <1>2, SharesAssumption
  <1>7. \A i \in Ids : shares[i] # None =>
            \/ shares'[i].token = shares[i].token
            \/ i = id /\ operation = "rotate" /\ shares'[i].token = work[t].token
    BY <1>2
  <1>8. TokenUnique'
    BY <1>typed, <1>1, <1>6, <1>7 DEF TokenUnique, Inv, TokensAreFresh
  <1>9. TokensAreFresh'
    <2>1. \A i \in Ids : shares'[i] # None => shares'[i].token \in issued'
      BY <1>1, <1>6, <1>7 DEF Inv, TokensAreFresh
    <2>2. ASSUME NEW u \in Threads, pc'[u] = "rotate"
          PROVE  /\ work'[u].token \in issued'
                 /\ \A i \in Ids : shares'[i] # None => shares'[i].token # work'[u].token
                 /\ \A v \in Threads \ {u} :
                        pc'[v] = "rotate" => work'[v].token # work'[u].token
      <3>1. u # t /\ pc[u] = "rotate" /\ work'[u] = work[u]
        BY <1>4, <1>5, <2>2
      <3>2. operation = "rotate" => work[u].token # work[t].token
        BY <1>1, <3>1 DEF Inv, TokensAreFresh
      <3>3. QED
        BY <1>4, <1>5, <1>6, <1>7, <3>1, <3>2 DEF Inv, TokensAreFresh
    <2>3. QED
      BY <2>1, <2>2 DEF TokensAreFresh
  <1>10. ShownLinkWorks'
    BY <1>2 DEF Inv, ShownLinkWorks
  <1>11. BusyHaveShares'
    BY <1>4, <1>5 DEF Inv, BusyHaveShares
  <1>12. FilesHaveShares'
    <2>1. \A u \in Threads : pc[u] = "remove" => pc'[u] = pc[u] /\ work'[u] = work[u]
      BY <1>1, <1>4
    <2>2. QED
      BY <1>typed, <1>6, <2>1 DEF Inv, FilesHaveShares, SetTypes
  <1>13. SetTypes'
    BY <1>typed DEF SetTypes
  <1>14. QED
    BY <1>2, <1>3, <1>8, <1>9, <1>10, <1>11, <1>12, <1>13, NextParts

LEMMA CreateKeeps ==
  ASSUME Inv, NEW i \in Ids, NEW tok \in Tokens, Create(i, tok)
  PROVE  Inv'
  <1>typed. RowTypes /\ TokenUnique /\ TaskTypes /\ SetTypes
    BY RowParts
  <1> DEFINE row == [token |-> tok, sealed |-> Sealed(tok), revoked |-> FALSE, expired |-> FALSE]
  <1>1. row \in Share /\ row.token = tok /\ row.sealed \in {None, row.token}
    BY DEF Share, Sealed
  <1> HIDE DEF row
  <1>2. shares'[i] = row /\ \A j \in Ids \ {i} : shares'[j] = shares[j]
    BY <1>typed DEF Create, RowTypes, row
  <1>3. RowTypes'
    BY <1>typed, <1>1 DEF Create, RowTypes, row
  <1>4. tok \notin issued /\ issued' = issued \cup {tok}
    BY DEF Create, FreshTokens
  <1>5. TokenUnique'
    BY <1>typed, <1>1, <1>2, <1>4 DEF TokenUnique, Inv, TokensAreFresh
  <1>6. TokensAreFresh'
    BY <1>1, <1>2, <1>4 DEF Inv, TokensAreFresh, Create
  <1>7. ShownLinkWorks'
    BY <1>1, <1>2 DEF Inv, ShownLinkWorks
  <1>8. FilesHaveShares'
    <2>1. row # None
      BY <1>1, SharesAssumption
    <2>2. QED
      BY <1>typed, <1>2, <2>1 DEF Inv, FilesHaveShares, Create, SetTypes
  <1>9. TaskTypes' /\ SetTypes' /\ BusyHaveShares'
    BY <1>typed DEF Create, TaskTypes, SetTypes, Inv, BusyHaveShares
  <1>10. QED
    BY <1>3, <1>5, <1>6, <1>7, <1>8, <1>9, NextParts

LEMMA CheckKeeps ==
  ASSUME Inv, NEW t \in Threads, NEW i \in Ids,
         NEW operation \in {"rotate", "revoke", "renew", "delete"}, Check(t, i, operation)
  PROVE  Inv'
  <1>typed. RowTypes /\ TokenUnique /\ TaskTypes /\ SetTypes
    BY RowParts
  <1>1. pc[t] = "idle" /\ pc'[t] = operation
    BY <1>typed DEF Check, TaskTypes
  <1>2. \A u \in Threads \ {t} : pc'[u] = pc[u] /\ work'[u] = work[u]
    BY <1>typed DEF Check, TaskTypes
  <1>3. UNCHANGED <<shares, files, created, client, left>>
    BY DEF Check
  <1>4. RowTypes' /\ TokenUnique' /\ ShownLinkWorks'
    BY <1>typed, <1>3 DEF RowTypes, TokenUnique, Inv, ShownLinkWorks
  <1>5. pc' \in [Threads -> Pcs]
    BY <1>typed DEF Check, TaskTypes, Pcs
  <1>6. FilesHaveShares'
    BY <1>typed, <1>1, <1>2, <1>3 DEF Inv, FilesHaveShares
  <1>7. CASE operation = "rotate"
    <2>1. PICK tok \in FreshTokens : /\ work' = [work EXCEPT ![t] = [id |-> i, token |-> tok]]
                                     /\ issued' = issued \cup {tok}
      BY <1>7 DEF Check
    <2>2. tok \in Tokens /\ tok \notin issued
      BY DEF FreshTokens
    <2>3. work'[t].id = i /\ work'[t].token = tok
      BY <1>typed, <2>1 DEF TaskTypes
    <2>4. TaskTypes' /\ SetTypes'
      <3>1. [id |-> i, token |-> tok] \in Work
        BY <2>2 DEF Work
      <3>2. QED
        BY <1>typed, <1>3, <1>5, <2>1, <2>2, <3>1 DEF TaskTypes, SetTypes
    <2>5. BusyHaveShares'
      BY <1>2, <1>3, <2>3 DEF Inv, BusyHaveShares
    <2>6. TokensAreFresh'
      BY <1>1, <1>2, <1>3, <2>1, <2>2, <2>3 DEF Inv, TokensAreFresh
    <2>7. QED
      BY <1>4, <1>6, <2>4, <2>5, <2>6, NextParts
  <1>8. CASE operation # "rotate"
    <2>1. work' = [work EXCEPT ![t] = [work[t] EXCEPT !.id = i]] /\ issued' = issued
      BY <1>8 DEF Check
    <2>2. [work[t] EXCEPT !.id = i] \in Work /\ [work[t] EXCEPT !.id = i].id = i
      BY <1>typed DEF TaskTypes, Work
    <2>3. TaskTypes' /\ SetTypes' /\ work'[t].id = i
      BY <1>typed, <1>3, <1>5, <2>1, <2>2 DEF TaskTypes, SetTypes
    <2>4. BusyHaveShares'
      BY <1>2, <1>3, <2>3 DEF Inv, BusyHaveShares
    <2>5. TokensAreFresh'
      BY <1>1, <1>2, <1>3, <1>8, <2>1 DEF Inv, TokensAreFresh
    <2>6. QED
      BY <1>4, <1>6, <2>3, <2>4, <2>5, NextParts
  <1>9. QED
    BY <1>7, <1>8

\* rotate_share, revoke_share and update_share_expiry write what RowWritten asks.
LEMMA WriteKeeps ==
  ASSUME Inv, NEW t \in Threads, Rotate(t) \/ Revoke(t) \/ Renew(t)
  PROVE  Inv'
  <1>typed. RowTypes /\ TaskTypes
    BY RowParts
  <1> DEFINE id == work[t].id
             old == shares[id]
             rotated == [old EXCEPT !.token = work[t].token, !.sealed = Sealed(work[t].token)]
             revoked == [old EXCEPT !.revoked = TRUE]
             renewed == [old EXCEPT !.expired = FALSE]
  <1>1. id \in Ids
    BY DEF Rotate, Revoke, Renew, Finish, Inv, BusyHaveShares
  <1>2. old # None => old \in Share /\ old.sealed \in {None, old.token}
    BY <1>typed, <1>1 DEF RowTypes, Inv, ShownLinkWorks
  <1>3. CASE Rotate(t)
    <2>1. work[t].token \in Tokens
      BY <1>3, RowParts DEF Rotate, Finish, TokensAreFresh, SetTypes
    <2>2. Sealed(work[t].token) \in {None, work[t].token}
      BY DEF Sealed
    <2>3. old # None => /\ rotated \in Share /\ rotated.token = work[t].token
                        /\ rotated.sealed \in {None, rotated.token}
      BY <1>2, <2>1, <2>2 DEF Share
    <2>4. shares' = Update(id, rotated)
      BY <1>3 DEF Rotate
    <2> HIDE DEF rotated
    <2>5. QED
      BY <1>3, <2>3, <2>4, RowWritten DEF Rotate
  <1>4. CASE Revoke(t)
    <2>1. old # None => /\ revoked \in Share /\ revoked.token = old.token
                        /\ revoked.sealed \in {None, revoked.token}
      BY <1>2 DEF Share
    <2>2. shares' = Update(id, revoked)
      BY <1>4 DEF Revoke
    <2> HIDE DEF revoked
    <2>3. QED
      BY <1>4, <2>1, <2>2, RowWritten DEF Revoke
  <1>5. CASE Renew(t)
    <2>1. old # None => /\ renewed \in Share /\ renewed.token = old.token
                        /\ renewed.sealed \in {None, renewed.token}
      BY <1>2 DEF Share
    <2>2. shares' = Update(id, renewed)
      BY <1>5 DEF Renew
    <2> HIDE DEF renewed
    <2>3. QED
      BY <1>5, <2>1, <2>2, RowWritten DEF Renew
  <1>6. QED
    BY <1>3, <1>4, <1>5

\* From the row to the files, a deletion answers for them.
LEMMA DeleteKeeps ==
  ASSUME Inv, NEW t \in Threads, Delete(t)
  PROVE  Inv'
  <1>typed. RowTypes /\ TokenUnique /\ TaskTypes /\ SetTypes
    BY RowParts
  <1>1. work[t].id \in Ids
    BY DEF Delete, Inv, BusyHaveShares
  <1>2. /\ shares'[work[t].id] = None
        /\ \A i \in Ids \ {work[t].id} : shares'[i] = shares[i]
        /\ RowTypes'
    BY <1>typed, <1>1 DEF Delete, RowTypes
  <1>3. /\ pc'[t] = "remove" /\ \A u \in Threads \ {t} : pc'[u] = pc[u]
        /\ work' = work /\ UNCHANGED <<files, issued, created, client, left>>
    BY <1>typed DEF Delete, TaskTypes
  <1>4. TokenUnique' /\ ShownLinkWorks'
    BY <1>typed, <1>2 DEF TokenUnique, Inv, ShownLinkWorks
  <1>5. TokensAreFresh'
    BY <1>2, <1>3 DEF Inv, TokensAreFresh
  <1>6. FilesHaveShares'
    BY <1>typed, <1>2, <1>3 DEF Inv, FilesHaveShares, Delete, SetTypes
  <1>7. BusyHaveShares'
    BY <1>1, <1>3 DEF Inv, BusyHaveShares
  <1>8. TaskTypes' /\ SetTypes'
    BY <1>typed DEF Delete, TaskTypes, SetTypes, Pcs
  <1>9. QED
    BY <1>2, <1>4, <1>5, <1>6, <1>7, <1>8, NextParts

LEMMA RemoveKeeps ==
  ASSUME Inv, NEW t \in Threads, RemoveConverted(t)
  PROVE  Inv'
  <1>typed. RowTypes /\ TokenUnique /\ TaskTypes /\ SetTypes
    BY RowParts
  <1>1. /\ pc'[t] = "idle"
        /\ \A u \in Threads \ {t} : pc'[u] = pc[u] /\ work'[u] = work[u]
    BY <1>typed DEF RemoveConverted, Finish, TaskTypes
  <1>2. UNCHANGED <<shares, issued, created, client>>
    BY DEF RemoveConverted, rows
  <1>3. RowTypes' /\ TokenUnique' /\ ShownLinkWorks'
    BY <1>typed, <1>2 DEF RowTypes, TokenUnique, Inv, ShownLinkWorks
  <1>4. TokensAreFresh' /\ BusyHaveShares'
    BY <1>1, <1>2 DEF Inv, TokensAreFresh, BusyHaveShares
  <1>5. FilesHaveShares'
    BY <1>1, <1>2 DEF Inv, FilesHaveShares, RemoveConverted
  <1>6. TaskTypes'
    BY <1>typed, <1>2 DEF RemoveConverted, Finish, Nothing, TaskTypes, Pcs, Work
  <1>7. SetTypes'
    <2>1. work[t].id \in Ids
      BY DEF RemoveConverted, Finish, Inv, BusyHaveShares
    <2>2. files' \subseteq files /\ left' \subseteq left \cup {work[t].id}
      BY DEF RemoveConverted
    <2>3. QED
      BY <1>typed, <1>2, <2>1, <2>2 DEF SetTypes
  <1>8. QED
    BY <1>3, <1>4, <1>5, <1>6, <1>7, NextParts

\* A step of a download: it keeps its share, or is done.
LEMMA DownloadKeeps ==
  ASSUME Inv, NEW c \in Clients, NEW new \in Download,
         new.pc # "idle" => new.id \in Ids,
         client' = [client EXCEPT ![c] = new], UNCHANGED <<rows, pc, work>>,
         files \subseteq files' /\ left \subseteq left',
         files' \subseteq Ids /\ left' \subseteq Ids,
         \A i \in files' \ files : shares[i] # None \/ i \in left'
  PROVE  Inv'
  <1>typed. RowTypes /\ TokenUnique /\ TaskTypes /\ SetTypes
    BY RowParts
  <1>1. RowTypes' /\ TokenUnique' /\ ShownLinkWorks' /\ SetTypes' /\ TokensAreFresh'
    BY <1>typed DEF rows, RowTypes, TokenUnique, Inv, ShownLinkWorks, SetTypes, TokensAreFresh
  <1>2. TaskTypes' /\ BusyHaveShares'
    BY <1>typed DEF TaskTypes, Inv, BusyHaveShares
  <1>3. FilesHaveShares'
    BY DEF rows, Inv, FilesHaveShares
  <1>4. QED
    BY <1>1, <1>2, <1>3, NextParts

LEMMA RowFound ==
  ASSUME NEW tok, RowOf(tok) # None
  PROVE  RowOf(tok) \in Ids /\ shares[RowOf(tok)] # None /\ shares[RowOf(tok)].token = tok
  BY DEF RowOf

LEMMA ClientKeeps ==
  ASSUME Inv, NEW c \in Clients,
         \/ \E tok \in Tokens, kind \in {"raw", "converted"} : Request(c, tok, kind)
         \/ ServeFromCache(c) \/ AskConverter(c) \/ ConverterReads(c)
         \/ \E ok \in BOOLEAN : FinishRender(c, ok)
  PROVE  Inv'
  <1>typed. TaskTypes /\ SetTypes
    BY RowParts
  <1>1. client[c] \in Download
    BY <1>typed DEF TaskTypes
  <1>2. ASSUME NEW tok \in Tokens, NEW kind \in {"raw", "converted"}, Request(c, tok, kind)
        PROVE  Inv'
    <2> DEFINE new == [pc |-> kind, id |-> RowOf(tok), token |-> tok]
    <2>1. RowOf(tok) \in Ids
      BY <1>2, RowFound DEF Request, Resolves, Live
    <2>2. new \in Download /\ new.id \in Ids
      BY <2>1 DEF Download
    <2>3. client' = [client EXCEPT ![c] = new]
      BY <1>2 DEF Request
    <2> HIDE DEF new
    <2>4. QED
      BY <1>typed, <1>2, <2>2, <2>3, DownloadKeeps DEF Request, SetTypes
  <1>quiet. Quiet \in Download /\ Quiet.pc = "idle"
    BY DEF Quiet, Download
  <1>3. CASE ServeFromCache(c)
    BY <1>typed, <1>3, <1>quiet, DownloadKeeps DEF ServeFromCache, Serve, SetTypes
  <1>moved. ASSUME NEW step \in {"requested", "converting"}, client[c].pc # "idle",
                   client' = [client EXCEPT ![c].pc = step], UNCHANGED <<rows, files, pc, work, left>>
            PROVE  Inv'
    <2> DEFINE new == [client[c] EXCEPT !.pc = step]
    <2>1. new \in Download /\ new.id \in Ids
      BY <1>1, <1>moved DEF Download, Inv, BusyHaveShares
    <2>2. client' = [client EXCEPT ![c] = new]
      BY <1>moved
    <2> HIDE DEF new
    <2>3. QED
      BY <1>typed, <1>moved, <2>1, <2>2, DownloadKeeps DEF SetTypes
  <1>4. CASE AskConverter(c)
    BY <1>4, <1>moved DEF AskConverter
  <1>5. CASE ConverterReads(c)
    <2>1. CASE Resolves(client[c].token)
      BY <1>5, <1>moved, <2>1 DEF ConverterReads
    <2>2. CASE ~Resolves(client[c].token)
      BY <1>typed, <1>5, <1>quiet, <2>2, DownloadKeeps DEF ConverterReads, Serve, SetTypes
    <2>3. QED
      BY <2>1, <2>2
  <1>6. ASSUME NEW ok \in BOOLEAN, FinishRender(c, ok) PROVE Inv'
    <2>1. client[c].id \in Ids
      BY <1>6 DEF FinishRender, Inv, BusyHaveShares
    <2>2. /\ files \subseteq files' /\ left \subseteq left'
          /\ files' \subseteq Ids /\ left' \subseteq Ids
          /\ \A i \in files' \ files : shares[i] # None \/ i \in left'
      BY <1>typed, <1>6, <2>1 DEF FinishRender, SetTypes
    <2>3. QED
      BY <1>6, <1>quiet, <2>2, DownloadKeeps DEF FinishRender, Serve
  <1>7. QED
    BY <1>2, <1>3, <1>4, <1>5, <1>6

LEMMA ExpireKeeps ==
  ASSUME Inv, NEW i \in Ids, Expire(i)
  PROVE  Inv'
  <1>typed. RowTypes /\ TokenUnique /\ TaskTypes /\ SetTypes
    BY RowParts
  <1> DEFINE row == [shares[i] EXCEPT !.expired = TRUE]
  <1>1. shares[i] \in Share /\ shares[i] # None
    BY <1>typed DEF Expire, Usable, RowTypes
  <1>2. /\ row \in Share /\ row.token = shares[i].token /\ row.sealed = shares[i].sealed
        /\ row # None
    BY <1>1, SharesAssumption DEF Share
  <1>3. shares' = [shares EXCEPT ![i] = row]
    BY DEF Expire
  <1> HIDE DEF row
  <1>4. /\ RowTypes' /\ shares'[i] = row
        /\ \A j \in Ids \ {i} : shares'[j] = shares[j]
    BY <1>typed, <1>2, <1>3 DEF RowTypes
  <1>5. UNCHANGED <<files, issued, created, pc, work, client, left>>
    BY DEF Expire
  <1>6. TokenUnique'
    BY <1>typed, <1>1, <1>2, <1>4 DEF TokenUnique
  <1>7. TokensAreFresh' /\ ShownLinkWorks' /\ BusyHaveShares'
    BY <1>1, <1>2, <1>4, <1>5 DEF Inv, TokensAreFresh, ShownLinkWorks, BusyHaveShares
  <1>8. FilesHaveShares' /\ TaskTypes' /\ SetTypes'
    BY <1>typed, <1>2, <1>4, <1>5 DEF Inv, FilesHaveShares, TaskTypes, SetTypes
  <1>9. QED
    BY <1>4, <1>6, <1>7, <1>8, NextParts

LEMMA RestartKeeps ==
  ASSUME Inv, Restart
  PROVE  Inv'
  <1>typed. RowTypes /\ TokenUnique /\ TaskTypes /\ SetTypes
    BY RowParts
  <1>1. UNCHANGED <<shares, issued, created, files>>
    BY DEF Restart, rows
  <1>2. RowTypes' /\ TokenUnique' /\ ShownLinkWorks'
    BY <1>typed, <1>1 DEF RowTypes, TokenUnique, Inv, ShownLinkWorks
  <1>3. (\A t \in Threads : pc'[t] = "idle") /\ (\A c \in Clients : client'[c].pc = "idle")
    BY DEF Restart, Quiet
  <1>4. TokensAreFresh' /\ BusyHaveShares'
    BY <1>1, <1>3 DEF Inv, TokensAreFresh, BusyHaveShares
  <1>5. FilesHaveShares'
    BY <1>1 DEF Inv, FilesHaveShares, Restart
  <1>6. TaskTypes'
    BY DEF Restart, TaskTypes, Nothing, Quiet, Pcs, Work, Download
  <1>7. SetTypes'
    BY <1>typed, <1>1 DEF SetTypes, Restart, Inv, BusyHaveShares
  <1>8. QED
    BY <1>2, <1>4, <1>5, <1>6, <1>7, NextParts

LEMMA StepKeepsInv == Inv /\ [Next]_vars => Inv'
  <1> SUFFICES ASSUME Inv, [Next]_vars PROVE Inv'
    OBVIOUS
  <1>typed. RowTypes /\ TokenUnique /\ TaskTypes /\ SetTypes
    BY RowParts
  <1>1. ASSUME NEW t \in Threads,
               Rotate(t) \/ Revoke(t) \/ Renew(t) \/ Delete(t) \/ RemoveConverted(t)
        PROVE  Inv'
    BY <1>1, WriteKeeps, DeleteKeeps, RemoveKeeps
  <1>2. CASE ClearConverted
    <2>1. /\ UNCHANGED <<shares, issued, created, pc, work, client>>
          /\ files' \subseteq files /\ left' = left \cap files'
      BY <1>2 DEF ClearConverted, rows
    <2>2. RowTypes' /\ TokenUnique' /\ ShownLinkWorks' /\ TaskTypes' /\ SetTypes'
      BY <1>typed, <2>1 DEF RowTypes, TokenUnique, Inv, ShownLinkWorks, TaskTypes, SetTypes
    <2>3. TokensAreFresh' /\ BusyHaveShares' /\ FilesHaveShares'
      BY <2>1 DEF Inv, TokensAreFresh, BusyHaveShares, FilesHaveShares
    <2>4. QED
      BY <2>2, <2>3, NextParts
  <1>3. CASE UNCHANGED vars
    <2>1. RowTypes' /\ TokenUnique' /\ ShownLinkWorks' /\ TaskTypes' /\ SetTypes'
      BY <1>typed, <1>3
         DEF vars, rows, RowTypes, TokenUnique, Inv, ShownLinkWorks, TaskTypes, SetTypes
    <2>2. TokensAreFresh' /\ BusyHaveShares' /\ FilesHaveShares'
      BY <1>3 DEF vars, rows, Inv, TokensAreFresh, BusyHaveShares, FilesHaveShares
    <2>3. QED
      BY <2>1, <2>2, NextParts
  <1>4. QED
    BY <1>1, <1>2, <1>3, CreateKeeps, CheckKeeps, ClientKeeps, ExpireKeeps, RestartKeeps
       DEF Next

THEOREM Invariance == Spec => []Inv
  BY Initially, StepKeepsInv, PTL DEF Spec

-----------------------------------------------------------------------------
\* Its consequences.

\* Every variable has its type, and a token opens one share.
THEOREM TypeCorrect == Spec => []ShTypeOK
  <1>1. Inv => ShTypeOK
    BY DEF Inv
  <1>2. QED
    BY <1>1, Invariance, PTL

\* However rotations overlap, the token that is sealed for the list of shares is
\* the one whose hash is stored.
THEOREM ShownLinksWork == Spec => []ShownLinkWorks
  <1>1. Inv => ShownLinkWorks
    BY DEF Inv
  <1>2. QED
    BY <1>1, Invariance, PTL

\* A deletion removes the files, or answers for those that a render adds, or that a
\* failing unlink or a restart leaves.
THEOREM NoFilesWithoutShare == Spec => []FilesHaveShares
  <1>1. Inv => FilesHaveShares
    BY DEF Inv
  <1>2. QED
    BY <1>1, Invariance, PTL

\* resolve() of a token, in terms of the rows.
LEMMA LiveHasRow ==
  ASSUME NEW tok, Live(tok)
  PROVE  \E i \in Ids : shares[i] # None /\ shares[i].token = tok /\ ~shares[i].revoked
  BY RowFound DEF Live

LEMMA RowIsLive ==
  ASSUME TokenUnique, NEW i \in Ids, shares[i] # None, ~shares[i].revoked
  PROVE  Live(shares[i].token)
  <1>1. RowOf(shares[i].token) = i
    BY DEF RowOf, TokenUnique
  <1>2. QED
    BY <1>1, SharesAssumption DEF Live

\* A step that brings a token to life generated it, or is the rotation that did.
LEMMA StepRevivesNothing ==
  ASSUME Inv, [Next]_vars, NEW tok \in Tokens, Live(tok)', ~Live(tok), tok \in issued
  PROVE  \E t \in Threads : work[t].token = tok
  <1>typed. RowTypes /\ TokenUnique
    BY RowParts
  <1>1. PICK i \in Ids : shares'[i] # None /\ shares'[i].token = tok /\ ~shares'[i].revoked
    <2>1. RowOf(tok)' # None /\ ~shares'[RowOf(tok)'].revoked
      BY DEF Live
    <2>2. RowOf(tok)' \in Ids /\ shares'[RowOf(tok)'] # None /\ shares'[RowOf(tok)'].token = tok
      BY <2>1 DEF RowOf
    <2>3. QED
      BY <2>1, <2>2
  <1>2. ~(shares[i] # None /\ shares[i].token = tok /\ ~shares[i].revoked)
    BY <1>typed, RowIsLive
  <1>3. shares[i] \in Share \/ shares[i] = None
    BY <1>typed DEF RowTypes
  <1>4. ASSUME NEW j \in Ids, NEW new \in Tokens, Create(j, new) PROVE FALSE
    BY <1>1, <1>2, <1>4, <1>typed DEF Create, FreshTokens, RowTypes
  <1>5. ASSUME NEW t \in Threads, Rotate(t) PROVE work[t].token = tok
    <2>1. work[t].id \in Ids
      BY <1>5 DEF Rotate, Finish, Inv, BusyHaveShares
    <2>2. i = work[t].id /\ shares[i] # None
      BY <1>1, <1>2, <1>5, <1>typed, <2>1 DEF Rotate, Update, RowTypes
    <2>3. shares'[i] = [shares[i] EXCEPT !.token = work[t].token, !.sealed = Sealed(work[t].token)]
      BY <1>5, <1>typed, <2>2 DEF Rotate, Update, RowTypes
    <2>4. QED
      BY <1>1, <1>3, <2>2, <2>3 DEF Share
  <1>6. ASSUME NEW t \in Threads, Revoke(t) \/ Renew(t) PROVE FALSE
    <2>1. work[t].id \in Ids
      BY <1>6 DEF Revoke, Renew, Finish, Inv, BusyHaveShares
    <2>2. i = work[t].id /\ shares[i] # None
      BY <1>1, <1>2, <1>6, <1>typed, <2>1 DEF Revoke, Renew, Update, RowTypes
    <2>3. \/ shares'[i] = [shares[i] EXCEPT !.revoked = TRUE]
          \/ shares'[i] = [shares[i] EXCEPT !.expired = FALSE]
      BY <1>6, <1>typed, <2>2 DEF Revoke, Renew, Update, RowTypes
    <2>4. QED
      BY <1>1, <1>2, <1>3, <2>2, <2>3 DEF Share
  <1>7. ASSUME NEW t \in Threads, Delete(t) PROVE FALSE
    BY <1>1, <1>2, <1>7, <1>typed DEF Delete, RowTypes
  <1>8. ASSUME NEW j \in Ids, Expire(j) PROVE FALSE
    <2>1. i = j /\ shares[i] # None /\ shares'[i] = [shares[i] EXCEPT !.expired = TRUE]
      BY <1>1, <1>2, <1>8, <1>typed DEF Expire, Usable, RowTypes
    <2>2. QED
      BY <1>1, <1>2, <1>3, <2>1 DEF Share
  <1>9. shares' # shares
    BY <1>1, <1>2
  <1>10. QED
    BY <1>4, <1>5, <1>6, <1>7, <1>8, <1>9
       DEF Next, Check, RemoveConverted, Request, ServeFromCache, AskConverter, ConverterReads,
           FinishRender, ClearConverted, Restart, vars, rows

\* rotate(), revoke(), renew() and delete() check a row and write it later: no
\* order of these steps brings a dead link back.
THEOREM DeadLinksAreDead == Spec => DeadLinksStayDead
  <1> DEFINE NoRevival ==
        \A tok \in Tokens :
            Live(tok)' => Live(tok) \/ tok \notin issued \/ \E t \in Threads : work[t].token = tok
  <1>1. Inv /\ [Next]_vars => [NoRevival]_vars
    BY StepRevivesNothing
  <1>2. QED
    BY <1>1, Invariance, PTL DEF Spec, DeadLinksStayDead

-----------------------------------------------------------------------------
\* Shares implements Links.

HasRow(i, tok) == shares[i] # None /\ shares[i].token = tok

RowState(row) ==
    IF row.revoked THEN "dead" ELSE IF row.expired THEN "expired" ELSE "working"

\* The state of a link by where its token is.
StatesByPlace ==
    /\ \A tok \in Tokens \ issued : LinkState(tok) = "unknown"
    /\ \A tok \in Tokens : Promised(tok) => LinkState(tok) = "promised"
    /\ \A i \in Ids, tok \in Tokens : HasRow(i, tok) => LinkState(tok) = RowState(shares[i])
    /\ \A tok \in Tokens :
        tok \in issued /\ ~Promised(tok) /\ (\A i \in Ids : ~HasRow(i, tok))
            => LinkState(tok) = "dead"

\* What is unknown has no row, what is promised neither.
PlacesApart ==
    /\ \A tok \in Tokens : Promised(tok) => tok \in issued
    /\ \A i \in Ids, tok \in Tokens : HasRow(i, tok) => tok \in issued /\ ~Promised(tok)
    /\ \A i, j \in Ids, tok \in Tokens : HasRow(i, tok) /\ HasRow(j, tok) => i = j

LEMMA Apart == Inv => PlacesApart
  BY RowParts DEF PlacesApart, Promised, HasRow, TokensAreFresh, TokenUnique

LEMMA Placed == Inv => StatesByPlace
  <1> SUFFICES ASSUME Inv PROVE StatesByPlace
    OBVIOUS
  <1>1. PlacesApart
    BY Apart
  <1>2. ASSUME NEW tok \in Tokens, tok \notin issued PROVE LinkState(tok) = "unknown"
    <2>1. ~Promised(tok) /\ ~Live(tok)
      BY <1>1, <1>2, LiveHasRow DEF PlacesApart, HasRow
    <2>2. QED
      BY <1>2, <2>1 DEF LinkState, Resolves
  <1>3. ASSUME NEW tok \in Tokens, Promised(tok) PROVE LinkState(tok) = "promised"
    <2>1. tok \in issued /\ ~Live(tok)
      BY <1>1, <1>3, LiveHasRow DEF PlacesApart, HasRow
    <2>2. QED
      BY <1>3, <2>1 DEF LinkState, Resolves
  <1>4. ASSUME NEW i \in Ids, NEW tok \in Tokens, HasRow(i, tok)
        PROVE  LinkState(tok) = RowState(shares[i])
    <2>1. tok \in issued /\ ~Promised(tok)
      BY <1>1, <1>4 DEF PlacesApart
    <2>2. RowOf(tok) = i
      BY <1>1, <1>4 DEF RowOf, PlacesApart, HasRow
    <2>3. Live(tok) <=> ~shares[i].revoked
      BY <2>2, SharesAssumption DEF Live
    <2>4. Resolves(tok) <=> ~shares[i].revoked /\ ~shares[i].expired
      BY <2>2, <2>3 DEF Resolves
    <2>5. QED
      BY <2>1, <2>3, <2>4 DEF LinkState, RowState
  <1>5. ASSUME NEW tok \in Tokens, tok \in issued, ~Promised(tok),
               \A i \in Ids : ~HasRow(i, tok)
        PROVE  LinkState(tok) = "dead"
    <2>1. ~Live(tok)
      BY <1>5, LiveHasRow DEF HasRow
    <2>2. QED
      BY <1>5, <2>1 DEF LinkState, Resolves
  <1>6. QED
    BY <1>2, <1>3, <1>4, <1>5 DEF StatesByPlace

\* An id is generated once.
RowsWereCreated == \A i \in Ids : shares[i] # None => i \in created

LEMMA StepKeepsCreated == Inv /\ RowsWereCreated /\ [Next]_vars => RowsWereCreated'
  <1> SUFFICES ASSUME Inv, RowsWereCreated, [Next]_vars PROVE RowsWereCreated'
    OBVIOUS
  <1>1. shares \in [Ids -> Share \cup {None}]
    BY RowParts, SMTT(30) DEF RowTypes
  <1>2. created \subseteq created'
    BY DEF Next, Create, Check, Rotate, Revoke, Renew, Delete, RemoveConverted, Request,
           ServeFromCache, AskConverter, ConverterReads, FinishRender, Expire, ClearConverted,
           Restart, vars, rows
  <1>3. ASSUME NEW i \in Ids, shares'[i] # None PROVE shares[i] # None \/ i \in created'
    <2>1. CASE \E j \in Ids, tok \in Tokens : Create(j, tok)
      BY <1>1, <1>3, <2>1 DEF Create
    <2>2. ASSUME NEW t \in Threads, Rotate(t) \/ Revoke(t) \/ Renew(t) PROVE shares[i] # None
      BY <1>1, <1>3, <2>2 DEF Rotate, Revoke, Renew, Update
    <2>3. ASSUME NEW t \in Threads, Delete(t) PROVE shares[i] # None
      BY <1>1, <1>3, <2>3 DEF Delete
    <2>4. CASE \E j \in Ids : Expire(j)
      BY <1>1, <1>3, <2>4 DEF Expire, Usable
    <2>5. CASE shares' = shares
      BY <1>3, <2>5
    <2>6. QED
      BY <2>1, <2>2, <2>3, <2>4, <2>5
         DEF Next, Check, RemoveConverted, Request, ServeFromCache, AskConverter,
             ConverterReads, FinishRender, ClearConverted, Restart, vars, rows
  <1>4. QED
    BY <1>2, <1>3 DEF RowsWereCreated

\* Before a step and after it.
Known ==
    /\ Inv /\ Inv'
    /\ PlacesApart /\ PlacesApart'
    /\ StatesByPlace /\ StatesByPlace'
    /\ RowsWereCreated

LEMMA InvKnown == Inv /\ RowsWereCreated /\ [Next]_vars => Known
  <1>1. Inv /\ [Next]_vars => Inv'
    BY StepKeepsInv
  <1>2. (Inv => PlacesApart)' /\ (Inv => StatesByPlace)'
    BY Apart, Placed, PTL
  <1>3. QED
    BY <1>1, <1>2, Apart, Placed DEF Known

\* A link whose token stays where it is stays what it is.
LEMMA LinkKept ==
  ASSUME Known, NEW tok \in Tokens, tok \in issued' <=> tok \in issued,
         Promised(tok)' <=> Promised(tok),
         \A i \in Ids : HasRow(i, tok)' <=> HasRow(i, tok),
         \A i \in Ids : HasRow(i, tok) => RowState(shares'[i]) = RowState(shares[i])
  PROVE  LinkState(tok)' = LinkState(tok)
  <1>1. CASE tok \notin issued
    BY <1>1 DEF Known, StatesByPlace
  <1>2. CASE Promised(tok)
    BY <1>2 DEF Known, StatesByPlace
  <1>3. ASSUME NEW i \in Ids, HasRow(i, tok) PROVE LinkState(tok)' = LinkState(tok)
    <2>1. LinkState(tok) = RowState(shares[i])
      BY <1>3 DEF Known, StatesByPlace
    <2>2. HasRow(i, tok)'
      BY <1>3
    <2>3. LinkState(tok)' = RowState(shares'[i])
      BY <2>2 DEF Known, StatesByPlace, RowState
    <2>4. QED
      BY <1>3, <2>1, <2>3
  <1>4. CASE tok \in issued /\ ~Promised(tok) /\ \A i \in Ids : ~HasRow(i, tok)
    BY <1>4 DEF Known, StatesByPlace
  <1>5. QED
    BY <1>1, <1>2, <1>3, <1>4

LEMMA AllKept ==
  ASSUME \A tok \in Tokens : LinkState(tok)' = LinkState(tok)
  PROVE  LinkStates' = LinkStates
  BY DEF LinkStates

LEMMA OneBecomes ==
  ASSUME NEW link \in Tokens, \A tok \in Tokens \ {link} : LinkState(tok)' = LinkState(tok)
  PROVE  Kept!Become(link, LinkState(link)')
  BY DEF Kept!Become, LinkStates

LEMMA SomeGivenUp ==
  ASSUME NEW links \in SUBSET Tokens,
         \A tok \in links : LinkState(tok) = "promised" /\ LinkState(tok)' = "dead",
         \A tok \in Tokens \ links : LinkState(tok)' = LinkState(tok)
  PROVE  Kept!Next
  <1>1. Kept!GiveUp(links)
    BY DEF Kept!GiveUp, LinkStates
  <1>2. QED
    BY <1>1 DEF Kept!Next

\* Where no row changes, and no token is generated or written.
LEMMA RowsKept ==
  ASSUME Known, UNCHANGED <<shares, issued>>,
         \A tok \in Tokens : Promised(tok)' <=> Promised(tok)
  PROVE  LinkStates' = LinkStates
  <1>1. ASSUME NEW tok \in Tokens PROVE LinkState(tok)' = LinkState(tok)
    <2>1. \A i \in Ids : HasRow(i, tok)' <=> HasRow(i, tok)
      BY DEF HasRow
    <2>2. \A i \in Ids : RowState(shares'[i]) = RowState(shares[i])
      OBVIOUS
    <2>3. QED
      BY <2>1, <2>2, LinkKept
  <1>2. QED
    BY <1>1, AllKept

\* One row changes, and keeps its token.
LEMMA RowBecomes ==
  ASSUME Known, NEW i \in Ids, shares[i] # None, shares'[i] # None,
         shares'[i].token = shares[i].token,
         \A j \in Ids \ {i} : shares'[j] = shares[j],
         issued' = issued, \A tok \in Tokens : Promised(tok)' <=> Promised(tok)
  PROVE  /\ shares[i].token \in Tokens
         /\ LinkState(shares[i].token) = RowState(shares[i])
         /\ LinkState(shares[i].token)' = RowState(shares'[i])
         /\ \A tok \in Tokens \ {shares[i].token} : LinkState(tok)' = LinkState(tok)
  <1>1. shares[i].token \in Tokens
    BY RowParts DEF Known, RowTypes, Share
  <1>2. HasRow(i, shares[i].token) /\ LinkState(shares[i].token) = RowState(shares[i])
    BY <1>1 DEF HasRow, Known, StatesByPlace
  <1>3. ASSUME NEW tok \in Tokens, HasRow(i, tok)' PROVE LinkState(tok)' = RowState(shares'[i])
    BY <1>3 DEF Known, StatesByPlace, RowState
  <1>4. LinkState(shares[i].token)' = RowState(shares'[i])
    <2>1. ASSUME NEW tok \in Tokens, tok = shares[i].token PROVE LinkState(tok)' = RowState(shares'[i])
      BY <1>3, <2>1 DEF HasRow
    <2>2. QED
      BY <1>1, <2>1
  <1>5. ASSUME NEW tok \in Tokens \ {shares[i].token} PROVE LinkState(tok)' = LinkState(tok)
    <2>1. \A j \in Ids : HasRow(j, tok)' <=> HasRow(j, tok)
      BY DEF HasRow
    <2>2. \A j \in Ids : HasRow(j, tok) => RowState(shares'[j]) = RowState(shares[j])
      BY DEF HasRow
    <2>3. QED
      BY <2>1, <2>2, LinkKept
  <1>6. QED
    BY <1>1, <1>2, <1>4, <1>5

\* What the writes of Rotate, Revoke and Renew make of the row.
LEMMA RowWritesTo ==
  ASSUME Known, NEW t \in Threads, work[t].id \in Ids, NEW row, row \in Share,
         shares' = Update(work[t].id, row)
  PROVE  /\ \A j \in Ids \ {work[t].id} : shares'[j] = shares[j]
         /\ shares[work[t].id] = None => shares' = shares
         /\ shares[work[t].id] # None => shares'[work[t].id] = row /\ row # None
  <1>1. shares \in [Ids -> Share \cup {None}]
    BY RowParts DEF Known, RowTypes
  <1>2. QED
    BY <1>1, SharesAssumption DEF Update

LEMMA FinishKeepsPromises ==
  ASSUME Known, NEW t \in Threads, NEW operation \in {"revoke", "renew"}, Finish(t, operation)
  PROVE  \A tok \in Tokens : Promised(tok)' <=> Promised(tok)
  <1>1. TaskTypes
    BY RowParts DEF Known
  <1>2. \A u \in Threads \ {t} : pc'[u] = pc[u] /\ work'[u] = work[u]
    BY <1>1 DEF Finish, TaskTypes
  <1>3. pc[t] # "rotate" /\ pc'[t] # "rotate"
    BY <1>1 DEF Finish, TaskTypes
  <1>4. QED
    BY <1>2, <1>3 DEF Promised

LEMMA CreateOpens ==
  ASSUME Known, NEW i \in Ids, NEW tok \in Tokens, Create(i, tok)
  PROVE  Kept!Next
  <1>typed. RowTypes
    BY RowParts DEF Known
  <1>1. shares'[i].token = tok /\ ~shares'[i].revoked /\ ~shares'[i].expired
    BY <1>typed DEF Create, RowTypes
  <1>2. shares'[i] # None
    <2>1. shares' = [shares EXCEPT ![i] = [token |-> tok, sealed |-> Sealed(tok),
                                           revoked |-> FALSE, expired |-> FALSE]]
      BY DEF Create
    <2>2. [token |-> tok, sealed |-> Sealed(tok), revoked |-> FALSE, expired |-> FALSE] \in Share
      BY DEF Share, Sealed
    <2>3. QED
      BY <1>typed, <2>1, <2>2, SharesAssumption DEF RowTypes
  <1>3. \A j \in Ids \ {i} : shares'[j] = shares[j]
    BY <1>typed DEF Create, RowTypes
  <1>4. tok \notin issued /\ issued' = issued \cup {tok} /\ pc' = pc /\ work' = work
    BY DEF Create, FreshTokens
  <1>5. LinkState(tok) = "unknown"
    BY <1>4 DEF Known, StatesByPlace
  <1>6. LinkState(tok)' = "working"
    <2>1. HasRow(i, tok)'
      BY <1>1, <1>2 DEF HasRow
    <2>2. LinkState(tok)' = RowState(shares'[i])
      BY <2>1 DEF Known, StatesByPlace, RowState
    <2>3. QED
      BY <1>1, <2>2 DEF RowState
  <1>7. ASSUME NEW other \in Tokens \ {tok} PROVE LinkState(other)' = LinkState(other)
    <2>1. shares[i] = None
      BY DEF Create, Known, RowsWereCreated
    <2>2. \A j \in Ids : HasRow(j, other)' <=> HasRow(j, other)
      BY <1>1, <1>3, <2>1 DEF HasRow
    <2>3. \A j \in Ids : HasRow(j, other) => RowState(shares'[j]) = RowState(shares[j])
      BY <1>3, <2>1 DEF HasRow
    <2>4. Promised(other)' <=> Promised(other)
      BY <1>4 DEF Promised
    <2>5. QED
      BY <1>4, <2>2, <2>3, <2>4, LinkKept
  <1>8. Kept!Open(tok)
    BY <1>5, <1>6, <1>7, OneBecomes DEF Kept!Open, LinkStates
  <1>9. QED
    BY <1>8 DEF Kept!Next

LEMMA RotationPromised ==
  ASSUME Known, NEW t \in Threads, NEW i \in Ids, Check(t, i, "rotate")
  PROVE  Kept!Next
  <1>typed. TaskTypes
    BY RowParts DEF Known
  <1>1. PICK tok \in FreshTokens : /\ work' = [work EXCEPT ![t] = [id |-> i, token |-> tok]]
                                   /\ issued' = issued \cup {tok}
    BY DEF Check
  <1>2. tok \in Tokens /\ tok \notin issued
    BY DEF FreshTokens
  <1>3. /\ pc[t] = "idle" /\ pc'[t] = "rotate" /\ work'[t].token = tok
        /\ \A u \in Threads \ {t} : pc'[u] = pc[u] /\ work'[u] = work[u]
    BY <1>typed, <1>1 DEF Check, TaskTypes
  <1>4. Promised(tok)' /\ \A other \in Tokens \ {tok} : Promised(other)' <=> Promised(other)
    BY <1>2, <1>3 DEF Promised
  <1>5. LinkState(tok) = "unknown" /\ LinkState(tok)' = "promised"
    BY <1>2, <1>4 DEF Known, StatesByPlace
  <1>6. ASSUME NEW other \in Tokens \ {tok} PROVE LinkState(other)' = LinkState(other)
    <2>1. shares' = shares
      BY DEF Check
    <2>2. \A j \in Ids : HasRow(j, other)' <=> HasRow(j, other)
      BY <2>1 DEF HasRow
    <2>3. QED
      BY <1>1, <1>4, <2>1, <2>2, LinkKept
  <1>7. Kept!Promise(tok)
    BY <1>2, <1>5, <1>6, OneBecomes DEF Kept!Promise, LinkStates
  <1>8. QED
    BY <1>2, <1>7 DEF Kept!Next


\* The new token takes over what the old one was, or is dead like it.
LEMMA RotationHandsOver ==
  ASSUME Known, NEW t \in Threads, Rotate(t)
  PROVE  Kept!Next
  <1>typed. RowTypes /\ TaskTypes /\ SetTypes
    BY RowParts DEF Known
  <1>0. work[t].id \in Ids /\ work[t].token \in Tokens \cap issued /\ pc[t] = "rotate"
    BY <1>typed DEF Rotate, Finish, Known, Inv, BusyHaveShares, TokensAreFresh, SetTypes
  <1>1. PICK i \in Ids, new \in Tokens \cap issued : work[t].id = i /\ work[t].token = new
    BY <1>0
  <1>2. /\ Promised(new) /\ LinkState(new) = "promised"
        /\ \A j \in Ids : ~HasRow(j, new)
    BY <1>0, <1>1 DEF Promised, Known, StatesByPlace, PlacesApart
  <1>3. pc'[t] = "idle" /\ \A u \in Threads \ {t} : pc'[u] = pc[u] /\ work'[u] = work[u]
    BY <1>typed DEF Rotate, Finish, TaskTypes
  <1>4. ~Promised(new)' /\ \A tok \in Tokens \ {new} : Promised(tok)' <=> Promised(tok)
    <2>1. \A u \in Threads \ {t} : pc[u] = "rotate" => work[u].token # new
      BY <1>0, <1>1 DEF Known, Inv, TokensAreFresh
    <2>2. QED
      BY <1>0, <1>1, <1>3, <2>1 DEF Promised
  <1>5. issued' = issued
    BY DEF Rotate
  <1>6. CASE shares[i] = None
    <2>1. shares' = shares
      BY <1>typed, <1>1, <1>6 DEF Rotate, Update, RowTypes
    <2>2. \A j \in Ids, tok \in Tokens : HasRow(j, tok)' <=> HasRow(j, tok)
      BY <2>1 DEF HasRow
    <2>3. LinkState(new)' = "dead"
      BY <1>2, <1>4, <1>5, <2>2 DEF Known, StatesByPlace
    <2>4. ASSUME NEW tok \in Tokens \ {new} PROVE LinkState(tok)' = LinkState(tok)
      BY <1>4, <1>5, <2>1, <2>2, LinkKept
    <2>5. {new} \in SUBSET Tokens
      OBVIOUS
    <2>6. QED
      BY <1>2, <2>3, <2>4, <2>5, SomeGivenUp
  <1>7. CASE shares[i] # None
    <2> DEFINE row == [shares[i] EXCEPT !.token = new, !.sealed = Sealed(new)]
    <2>1. shares[i] \in Share
      BY <1>typed, <1>7 DEF RowTypes
    <2>2. /\ row.token = new /\ row.revoked = shares[i].revoked
          /\ row.expired = shares[i].expired /\ row # None
      <3>1. row \in Share
        BY <2>1 DEF Share, Sealed
      <3>2. QED
        BY <2>1, <3>1, SharesAssumption DEF Share
    <2>3. shares'[i] = row /\ \A j \in Ids \ {i} : shares'[j] = shares[j]
      BY <1>typed, <1>1, <1>7 DEF Rotate, Update, RowTypes
    <2> HIDE DEF row
    <2>4. PICK old \in Tokens : shares[i].token = old
      BY <2>1 DEF Share
    <2>5. HasRow(i, old) /\ old # new
      BY <1>2, <1>7, <2>4 DEF HasRow
    <2>6. LinkState(old) = RowState(shares[i])
      BY <2>5 DEF Known, StatesByPlace
    <2>7. HasRow(i, new)' /\ RowState(shares'[i]) = RowState(shares[i])
      BY <2>2, <2>3 DEF HasRow, RowState
    <2>8. LinkState(new)' = LinkState(old)
      BY <2>6, <2>7 DEF Known, StatesByPlace, RowState
    <2>9. LinkState(old)' = "dead"
      <3>1. old \in issued /\ ~Promised(old) /\ \A j \in Ids \ {i} : ~HasRow(j, old)
        BY <2>5 DEF Known, PlacesApart
      <3>2. \A j \in Ids : ~HasRow(j, old)'
        BY <2>2, <2>3, <2>5, <3>1 DEF HasRow
      <3>3. QED
        BY <1>4, <1>5, <2>5, <3>1, <3>2 DEF Known, StatesByPlace
    <2>10. ASSUME NEW tok \in Tokens \ {old, new} PROVE LinkState(tok)' = LinkState(tok)
      <3>1. \A j \in Ids : HasRow(j, tok)' <=> HasRow(j, tok)
        BY <2>2, <2>3, <2>4 DEF HasRow
      <3>2. \A j \in Ids : HasRow(j, tok) => RowState(shares'[j]) = RowState(shares[j])
        BY <2>3, <2>7
      <3>3. QED
        BY <1>4, <1>5, <3>1, <3>2, LinkKept
    <2>11. CASE LinkState(old) = "dead"
      <3>1. ASSUME NEW tok \in Tokens \ {new} PROVE LinkState(tok)' = LinkState(tok)
        BY <2>9, <2>10, <2>11, <3>1
      <3>2. {new} \in SUBSET Tokens
        OBVIOUS
      <3>3. QED
        BY <1>2, <2>8, <2>11, <3>1, <3>2, SomeGivenUp
    <2>12. CASE LinkState(old) # "dead"
      <3>1. LinkState(old) \in {"working", "expired"}
        BY <2>6, <2>12 DEF RowState
      <3>2. LinkStates' = [LinkStates EXCEPT ![old] = "dead", ![new] = LinkStates[old]]
        BY <2>5, <2>8, <2>9, <2>10 DEF LinkStates
      <3>3. Kept!HandOver(old, new)
        BY <1>2, <3>1, <3>2 DEF Kept!HandOver, LinkStates
      <3>4. QED
        BY <3>3 DEF Kept!Next
    <2>13. QED
      BY <2>11, <2>12
  <1>8. QED
    BY <1>6, <1>7

LEMMA RevocationEnds ==
  ASSUME Known, NEW t \in Threads, Revoke(t)
  PROVE  Kept!Next \/ LinkStates' = LinkStates
  <1>typed. RowTypes
    BY RowParts DEF Known
  <1>0. work[t].id \in Ids
    BY DEF Revoke, Finish, Known, Inv, BusyHaveShares
  <1>1. PICK i \in Ids : work[t].id = i
    BY <1>0
  <1>2. issued' = issued /\ \A tok \in Tokens : Promised(tok)' <=> Promised(tok)
    BY FinishKeepsPromises DEF Revoke
  <1>3. CASE shares[i] = None
    <2>1. shares' = shares
      BY <1>typed, <1>1, <1>3 DEF Revoke, Update, RowTypes
    <2>2. QED
      BY <1>2, <2>1, RowsKept
  <1>4. CASE shares[i] # None
    <2> DEFINE row == [shares[i] EXCEPT !.revoked = TRUE]
    <2>1. shares[i] \in Share
      BY <1>typed, <1>4 DEF RowTypes
    <2>2. row.token = shares[i].token /\ RowState(row) = "dead" /\ row # None
      <3>1. row \in Share /\ row.revoked
        BY <2>1 DEF Share
      <3>2. QED
        BY <2>1, <3>1, SharesAssumption DEF Share, RowState
    <2>3. shares'[i] = row /\ \A j \in Ids \ {i} : shares'[j] = shares[j]
      BY <1>typed, <1>1, <1>4 DEF Revoke, Update, RowTypes
    <2> HIDE DEF row
    <2>4. PICK tok \in Tokens : shares[i].token = tok
      BY <2>1 DEF Share
    <2>5. /\ LinkState(tok) = RowState(shares[i]) /\ LinkState(tok)' = "dead"
          /\ \A other \in Tokens \ {tok} : LinkState(other)' = LinkState(other)
      <3>1. LinkState(tok) = RowState(shares[i])
        BY <1>4, <2>4 DEF HasRow, Known, StatesByPlace
      <3>2. HasRow(i, tok)' /\ RowState(shares'[i]) = "dead"
        BY <2>2, <2>3, <2>4 DEF HasRow
      <3>3. LinkState(tok)' = "dead"
        BY <3>2 DEF Known, StatesByPlace, RowState
      <3>4. QED
        BY <1>2, <1>4, <2>2, <2>3, <2>4, <3>1, <3>3, RowBecomes
    <2>6. CASE LinkState(tok) = "dead"
      BY <2>5, <2>6, AllKept
    <2>7. CASE LinkState(tok) # "dead"
      <3>1. LinkState(tok) \in {"working", "expired"}
        BY <2>5, <2>7 DEF RowState
      <3>2. Kept!End(tok)
        BY <2>5, <3>1, OneBecomes DEF Kept!End, LinkStates
      <3>3. QED
        BY <3>2 DEF Kept!Next
    <2>8. QED
      BY <2>6, <2>7
  <1>5. QED
    BY <1>3, <1>4

\* A renewal that was checked before a revocation and is written after it renews
\* nothing.
LEMMA RenewalRenews ==
  ASSUME Known, NEW t \in Threads, Renew(t)
  PROVE  Kept!Next \/ LinkStates' = LinkStates
  <1>typed. RowTypes
    BY RowParts DEF Known
  <1>0. work[t].id \in Ids
    BY DEF Renew, Finish, Known, Inv, BusyHaveShares
  <1>1. PICK i \in Ids : work[t].id = i
    BY <1>0
  <1>2. issued' = issued /\ \A tok \in Tokens : Promised(tok)' <=> Promised(tok)
    BY FinishKeepsPromises DEF Renew
  <1>3. CASE shares[i] = None
    <2>1. shares' = shares
      BY <1>typed, <1>1, <1>3 DEF Renew, Update, RowTypes
    <2>2. QED
      BY <1>2, <2>1, RowsKept
  <1>4. CASE shares[i] # None
    <2> DEFINE row == [shares[i] EXCEPT !.expired = FALSE]
    <2>1. shares[i] \in Share
      BY <1>typed, <1>4 DEF RowTypes
    <2>2. /\ row.token = shares[i].token /\ row.revoked = shares[i].revoked
          /\ ~row.expired /\ row # None
      <3>1. row \in Share
        BY <2>1 DEF Share
      <3>2. QED
        BY <2>1, <3>1, SharesAssumption DEF Share
    <2>3. shares'[i] = row /\ \A j \in Ids \ {i} : shares'[j] = shares[j]
      BY <1>typed, <1>1, <1>4 DEF Renew, Update, RowTypes
    <2> HIDE DEF row
    <2>4. PICK tok \in Tokens : shares[i].token = tok
      BY <2>1 DEF Share
    <2>5. /\ LinkState(tok) = RowState(shares[i]) /\ LinkState(tok)' = RowState(row)
          /\ \A other \in Tokens \ {tok} : LinkState(other)' = LinkState(other)
      <3>1. LinkState(tok) = RowState(shares[i])
        BY <1>4, <2>4 DEF HasRow, Known, StatesByPlace
      <3>2. HasRow(i, tok)'
        BY <2>2, <2>3, <2>4 DEF HasRow
      <3>3. LinkState(tok)' = RowState(shares'[i])
        BY <3>2 DEF Known, StatesByPlace, RowState
      <3>4. QED
        BY <1>2, <1>4, <2>2, <2>3, <2>4, <3>1, <3>3, RowBecomes
    <2>6. CASE LinkState(tok)' = LinkState(tok)
      BY <2>5, <2>6, AllKept
    <2>7. CASE LinkState(tok)' # LinkState(tok)
      <3>1. LinkState(tok) = "expired" /\ LinkState(tok)' = "working"
        BY <2>2, <2>5, <2>7 DEF RowState
      <3>2. Kept!Renew(tok)
        BY <2>5, <3>1, OneBecomes DEF Kept!Renew, LinkStates
      <3>3. QED
        BY <3>2 DEF Kept!Next
    <2>8. QED
      BY <2>6, <2>7
  <1>5. QED
    BY <1>3, <1>4

LEMMA DeletionEnds ==
  ASSUME Known, NEW t \in Threads, Delete(t)
  PROVE  Kept!Next \/ LinkStates' = LinkStates
  <1>typed. RowTypes /\ TaskTypes
    BY RowParts DEF Known
  <1>0. work[t].id \in Ids
    BY DEF Delete, Known, Inv, BusyHaveShares
  <1>1. PICK i \in Ids : work[t].id = i
    BY <1>0
  <1>2. issued' = issued /\ \A tok \in Tokens : Promised(tok)' <=> Promised(tok)
    <2>1. /\ work' = work /\ pc[t] = "delete" /\ pc'[t] = "remove"
          /\ \A u \in Threads \ {t} : pc'[u] = pc[u]
      BY <1>typed DEF Delete, TaskTypes
    <2>2. QED
      BY <2>1 DEF Promised, Delete
  <1>3. shares'[i] = None /\ \A j \in Ids \ {i} : shares'[j] = shares[j]
    BY <1>typed, <1>1 DEF Delete, RowTypes
  <1>4. CASE shares[i] = None
    <2>1. shares' = shares
      BY <1>typed, <1>1, <1>4 DEF Delete, RowTypes
    <2>2. QED
      BY <1>2, <2>1, RowsKept
  <1>5. CASE shares[i] # None
    <2>1. PICK tok \in Tokens : shares[i].token = tok
      BY <1>typed, <1>5 DEF RowTypes, Share
    <2>2. HasRow(i, tok)
      BY <1>5, <2>1 DEF HasRow
    <2>3. LinkState(tok) = RowState(shares[i])
      BY <2>2 DEF Known, StatesByPlace
    <2>4. LinkState(tok)' = "dead"
      <3>1. tok \in issued /\ ~Promised(tok) /\ \A j \in Ids \ {i} : ~HasRow(j, tok)
        BY <2>2 DEF Known, PlacesApart
      <3>2. \A j \in Ids : ~HasRow(j, tok)'
        BY <1>3, <3>1 DEF HasRow
      <3>3. QED
        BY <1>2, <3>1, <3>2 DEF Known, StatesByPlace
    <2>5. ASSUME NEW other \in Tokens \ {tok} PROVE LinkState(other)' = LinkState(other)
      <3>1. \A j \in Ids : HasRow(j, other)' <=> HasRow(j, other)
        BY <1>3, <2>1 DEF HasRow
      <3>2. \A j \in Ids : HasRow(j, other) => RowState(shares'[j]) = RowState(shares[j])
        BY <1>3, <2>1 DEF HasRow
      <3>3. QED
        BY <1>2, <3>1, <3>2, LinkKept
    <2>6. CASE LinkState(tok) = "dead"
      BY <2>4, <2>5, <2>6, AllKept
    <2>7. CASE LinkState(tok) # "dead"
      <3>1. LinkState(tok) \in {"working", "expired"}
        BY <2>3, <2>7 DEF RowState
      <3>2. Kept!End(tok)
        BY <2>4, <2>5, <3>1, OneBecomes DEF Kept!End, LinkStates
      <3>3. QED
        BY <3>2 DEF Kept!Next
    <2>8. QED
      BY <2>6, <2>7
  <1>6. QED
    BY <1>4, <1>5

LEMMA ExpiryExpires ==
  ASSUME Known, NEW i \in Ids, Expire(i)
  PROVE  Kept!Next
  <1>typed. RowTypes
    BY RowParts DEF Known
  <1> DEFINE row == [shares[i] EXCEPT !.expired = TRUE]
  <1>1. shares[i] \in Share /\ shares[i] # None /\ ~shares[i].revoked /\ ~shares[i].expired
    BY <1>typed DEF Expire, Usable, RowTypes
  <1>2. /\ row.token = shares[i].token /\ RowState(row) = "expired" /\ row # None
    <2>1. row \in Share /\ row.expired /\ ~row.revoked
      BY <1>1 DEF Share
    <2>2. QED
      BY <1>1, <2>1, SharesAssumption DEF Share, RowState
  <1>3. shares'[i] = row /\ \A j \in Ids \ {i} : shares'[j] = shares[j]
    BY <1>typed DEF Expire, RowTypes
  <1> HIDE DEF row
  <1>4. PICK tok \in Tokens : shares[i].token = tok
    BY <1>1 DEF Share
  <1>5. issued' = issued /\ \A other \in Tokens : Promised(other)' <=> Promised(other)
    BY DEF Expire, Promised
  <1>6. LinkState(tok) = "working"
    BY <1>1, <1>4 DEF HasRow, Known, StatesByPlace, RowState
  <1>7. LinkState(tok)' = "expired"
    <2>1. HasRow(i, tok)' /\ RowState(shares'[i]) = "expired"
      BY <1>2, <1>3, <1>4 DEF HasRow
    <2>2. QED
      BY <2>1 DEF Known, StatesByPlace, RowState
  <1>8. \A other \in Tokens \ {tok} : LinkState(other)' = LinkState(other)
    BY <1>1, <1>2, <1>3, <1>4, <1>5, RowBecomes
  <1>9. Kept!Expire(tok)
    BY <1>6, <1>7, <1>8, OneBecomes DEF Kept!Expire, LinkStates
  <1>10. QED
    BY <1>9 DEF Kept!Next

LEMMA RestartGivesUp ==
  ASSUME Known, Restart
  PROVE  Kept!Next
  <1> DEFINE given == {tok \in Tokens : Promised(tok)}
  <1>1. PICK links \in SUBSET Tokens : links = given
    OBVIOUS
  <1>2. \A tok \in Tokens : tok \in links <=> Promised(tok)
    BY <1>1
  <1>3. shares' = shares /\ issued' = issued /\ \A tok \in Tokens : ~Promised(tok)'
    BY DEF Restart, rows, Promised
  <1>4. \A j \in Ids, tok \in Tokens : HasRow(j, tok)' <=> HasRow(j, tok)
    BY <1>3 DEF HasRow
  <1>5. ASSUME NEW tok \in links PROVE LinkState(tok) = "promised" /\ LinkState(tok)' = "dead"
    <2>1. Promised(tok) /\ tok \in issued /\ \A j \in Ids : ~HasRow(j, tok)
      BY <1>2 DEF Known, PlacesApart
    <2>2. QED
      BY <1>3, <1>4, <2>1 DEF Known, StatesByPlace
  <1>6. ASSUME NEW tok \in Tokens \ links PROVE LinkState(tok)' = LinkState(tok)
    <2>1. \A j \in Ids : RowState(shares'[j]) = RowState(shares[j])
      BY <1>3
    <2>2. QED
      BY <1>2, <1>3, <1>4, <2>1, LinkKept
  <1>7. QED
    BY <1>5, <1>6, SomeGivenUp

\* Nothing else changes a row, or what a rotation is about to write.
LEMMA StepKeepsPromise ==
  ASSUME Inv, RowsWereCreated, [Next]_vars
  PROVE  Kept!Next \/ LinkStates' = LinkStates
  <1>1. Known
    BY InvKnown
  <1>typed. TaskTypes
    BY RowParts
  <1>2. ASSUME NEW t \in Threads, NEW i \in Ids, NEW operation \in {"revoke", "renew", "delete"},
               Check(t, i, operation)
        PROVE  LinkStates' = LinkStates
    <2>1. pc[t] = "idle" /\ pc'[t] = operation /\ UNCHANGED <<shares, issued>>
      BY <1>typed, <1>2 DEF Check, TaskTypes
    <2>2. \A u \in Threads \ {t} : pc'[u] = pc[u] /\ work'[u] = work[u]
      BY <1>typed, <1>2 DEF Check, TaskTypes
    <2>3. \A tok \in Tokens : Promised(tok)' <=> Promised(tok)
      BY <2>1, <2>2 DEF Promised
    <2>4. QED
      BY <1>1, <2>1, <2>3, RowsKept
  <1>3. ASSUME NEW t \in Threads, RemoveConverted(t) PROVE LinkStates' = LinkStates
    <2>1. pc[t] = "remove" /\ pc'[t] = "idle" /\ UNCHANGED <<shares, issued>>
      BY <1>typed, <1>3 DEF RemoveConverted, Finish, TaskTypes, rows
    <2>2. \A u \in Threads \ {t} : pc'[u] = pc[u] /\ work'[u] = work[u]
      BY <1>typed, <1>3 DEF RemoveConverted, Finish, TaskTypes
    <2>3. \A tok \in Tokens : Promised(tok)' <=> Promised(tok)
      BY <2>1, <2>2 DEF Promised
    <2>4. QED
      BY <1>1, <2>1, <2>3, RowsKept
  <1>4. ASSUME UNCHANGED <<rows, pc, work>> PROVE LinkStates' = LinkStates
    <2>1. UNCHANGED <<shares, issued>> /\ \A tok \in Tokens : Promised(tok)' <=> Promised(tok)
      BY <1>4 DEF rows, Promised
    <2>2. QED
      BY <1>1, <2>1, RowsKept
  <1>5. QED
    BY <1>1, <1>2, <1>3, <1>4, CreateOpens, RotationPromised, RotationHandsOver,
       RevocationEnds, RenewalRenews, DeletionEnds, ExpiryExpires, RestartGivesUp
       DEF Next, Request, ServeFromCache, AskConverter, ConverterReads, FinishRender,
           ClearConverted, vars

LEMMA StartsUnknown == Init => Kept!Init /\ RowsWereCreated
  <1> SUFFICES ASSUME Init PROVE Kept!Init /\ RowsWereCreated
    OBVIOUS
  <1>1. \A tok \in Tokens : LinkState(tok) = "unknown"
    BY Initially, Placed DEF StatesByPlace, Init
  <1>2. QED
    BY <1>1 DEF Kept!Init, LinkStates, RowsWereCreated, Init

\* However checks and writes of several requests, downloads and restarts are
\* interleaved, a link lives as Links says: what is dead stays dead, only a
\* renewal undoes an expiry, and a rotation hands over in one step.
THEOREM RefinesLinks == Spec => ImplementsLinks
  <1>1. Inv /\ RowsWereCreated /\ [Next]_vars => [Kept!Next]_LinkStates
    BY StepKeepsPromise
  <1>2. QED
    BY <1>1, StartsUnknown, StepKeepsCreated, Invariance, PTL DEF Spec, ImplementsLinks, Kept!Spec
=============================================================================
