------------------------------ MODULE TokenStore ------------------------------
(***************************************************************************)
(* The API tokens of the ADMIN console: the table kept as one NVS blob     *)
(* (api-token-store.c), the routes that create, list and delete tokens     *)
(* (management-token-routes.c) and the check of a bearer token             *)
(* (api_tokens.c).                                                         *)
(*                                                                         *)
(* Every operation loads the whole blob, changes the copy and writes it    *)
(* back; set_blob is durable when it returns, nvs_commit can still fail.   *)
(* The httpd task serves one request at a time; the factory reset, on the  *)
(* recovery task, erases the blob at any moment.  A verifier is abstracted *)
(* to the secret it is derived from.                                       *)
(***************************************************************************)
EXTENDS Naturals, FiniteSets

CONSTANTS
    TokenNames,     \* names, each <<letters, case>>: compared without case
    TokenIds,       \* the non-zero random identifiers
    TokenSecrets,   \* random token values: none is drawn twice, so their
                    \* number bounds the tokens ever created
    TokenCapacity   \* the store's record_count: 4 (api) or 2 (diagnostic)

ASSUME TokenAssumption == TokenCapacity \in Nat \ {0}

VARIABLES
    blob,       \* the stored records, in order
    tokenReq,   \* the request being served, with the copy it has loaded
    tokenLog    \* what the properties remember

tokenVars == <<blob, tokenReq, tokenLog>>

TokenSlots == 1 .. TokenCapacity
Inactive == [active |-> FALSE]
TokenRecords ==
    [active : {TRUE}, name : TokenNames, id : TokenIds, secret : TokenSecrets] \cup {Inactive}
TokenIdle == [pc |-> "idle", op |-> "none", copy |-> [i \in TokenSlots |-> Inactive], secret |-> {}]
TokenQuiet == [shown |-> {}, deleted |-> {}, dropped |-> {}, erased |-> {}, late |-> FALSE]

Secrets(table) == {table[i].secret : i \in {j \in TokenSlots : table[j].active}}
DrawnSecrets == Secrets(blob) \cup Secrets(tokenReq.copy) \cup tokenLog.dropped \cup tokenLog.erased

TokenRequests ==
    [pc : {"idle", "save", "commit", "answer"}, op : {"none", "create", "delete"},
     copy : [TokenSlots -> TokenRecords], secret : SUBSET TokenSecrets]
TokenLogs ==
    [shown : SUBSET TokenSecrets, deleted : SUBSET TokenSecrets,
     dropped : SUBSET TokenSecrets, erased : SUBSET TokenSecrets, late : BOOLEAN]

TokenTypeOK ==
    blob \in [TokenSlots -> TokenRecords] /\ tokenReq \in TokenRequests /\ tokenLog \in TokenLogs

TokenInit ==
    blob = [i \in TokenSlots |-> Inactive] /\ tokenReq = TokenIdle /\ tokenLog = TokenQuiet

-----------------------------------------------------------------------------
NamesEqual(a, b) == a[1] = b[1]

(* api_token_store_load refuses the whole table unless every two active      *)
(* records differ in name and identifier.                                    *)
Loads(table) ==
    \A i, j \in TokenSlots :
       i < j /\ table[i].active /\ table[j].active =>
          ~NamesEqual(table[i].name, table[j].name) /\ table[i].id # table[j].id

(* api_token_store_authorize *)
Accepted(secret) == Loads(blob) /\ secret \in Secrets(blob)

NameExists(table, name) == \E i \in TokenSlots : table[i].active /\ NamesEqual(table[i].name, name)

Available(table) == {i \in TokenSlots : ~table[i].active}

(* api_token_store_create, up to its save.  The identifier is drawn until it *)
(* is new, eight times at most; an error ends the request.                   *)
CreateToken(name) ==
    /\ tokenReq.pc = "idle"
    /\ Loads(blob)
    /\ ~NameExists(blob, name)
    /\ \E slot \in Available(blob), id \in TokenIds, secret \in TokenSecrets :
          /\ \A i \in Available(blob) : slot <= i
          /\ \A i \in TokenSlots : blob[i].active => blob[i].id # id
          /\ secret \notin DrawnSecrets
          /\ tokenReq' = [pc |-> "save", op |-> "create", secret |-> {secret},
                copy |-> [blob EXCEPT ![slot] =
                            [active |-> TRUE, name |-> name, id |-> id, secret |-> secret]]]
    /\ UNCHANGED <<blob, tokenLog>>

Without_LastKept(table, slot) ==
    [i \in TokenSlots |-> IF i < slot \/ i = TokenCapacity THEN table[i] ELSE table[i + 1]]

(* The records after the deleted one move up; the last slot is cleared. *)
Without(table, slot) ==
    [i \in TokenSlots |-> IF i < slot THEN table[i]
                          ELSE IF i < TokenCapacity THEN table[i + 1] ELSE Inactive]

(* api_token_store_delete, up to its save *)
DeleteToken(slot) ==
    /\ tokenReq.pc = "idle"
    /\ Loads(blob)
    /\ blob[slot].active
    /\ tokenReq' = [pc |-> "save", op |-> "delete", secret |-> {blob[slot].secret},
                    copy |-> Without(blob, slot)]
    /\ UNCHANGED <<blob, tokenLog>>

(* nvs_set_blob writes the copy, or fails and the request is refused.        *)
SaveTokens ==
    /\ tokenReq.pc = "save"
    /\ \/ /\ blob' = tokenReq.copy
          /\ tokenReq' = [tokenReq EXCEPT !.pc = "commit"]
          /\ tokenLog' = [tokenLog EXCEPT
                !.dropped = @ \cup (IF tokenReq.op = "delete" THEN tokenReq.secret ELSE {}),
                !.late = @ \/ Secrets(tokenReq.copy) \cap tokenLog.erased # {}]
       \/ tokenReq' = TokenIdle /\ UNCHANGED <<blob, tokenLog>>

(* nvs_commit; when it fails the answer is an error, the blob is written.    *)
CommitTokens ==
    /\ tokenReq.pc = "commit"
    /\ tokenReq' \in {[tokenReq EXCEPT !.pc = "answer"], TokenIdle}
    /\ UNCHANGED <<blob, tokenLog>>

(* The 201 shows the token, once; the 200 says it is revoked.                *)
AnswerToken ==
    /\ tokenReq.pc = "answer"
    /\ tokenLog' = IF tokenReq.op = "create"
                   THEN [tokenLog EXCEPT !.shown = @ \cup (tokenReq.secret \ tokenLog.erased)]
                   ELSE [tokenLog EXCEPT !.deleted = @ \cup tokenReq.secret]
    /\ tokenReq' = TokenIdle
    /\ UNCHANGED blob

(* management_factory_reset: nvs_erase_all of the namespace.                 *)
EraseTokens ==
    /\ blob' = [i \in TokenSlots |-> Inactive]
    /\ tokenLog' = [tokenLog EXCEPT !.erased = @ \cup Secrets(blob), !.shown = @ \ Secrets(blob)]
    /\ UNCHANGED tokenReq

(* Power is lost, or the reset restarts: the request is gone. *)
TokenRestart ==
    /\ tokenReq.pc # "idle"
    /\ tokenReq' = TokenIdle
    /\ UNCHANGED <<blob, tokenLog>>

TokenNext ==
    \/ \E name \in TokenNames : CreateToken(name)
    \/ \E slot \in TokenSlots : DeleteToken(slot)
    \/ SaveTokens \/ CommitTokens \/ AnswerToken \/ EraseTokens \/ TokenRestart

TokenSpec == TokenInit /\ [][TokenNext]_tokenVars

-----------------------------------------------------------------------------
(* The stored table can always be loaded again: no order of creations,       *)
(* deletions, failed writes, lost power and erasures leaves two records of   *)
(* one name or identifier, which would lock every later operation out        *)
(* (api-token-store.c:246-267).                                              *)
TokensLoad == Loads(blob)

(* A token whose deletion was answered with "deleted and revoked" is never   *)
(* accepted again, whatever is written later (management-token-routes.c:259).*)
DeletedStaysOut == \A s \in tokenLog.deleted : ~Accepted(s) \/ tokenLog.late

(* A token that was shown stays usable until its own deletion is written or  *)
(* the device is reset: no other operation loses it (api-token-store.c:556). *)
ShownIsAccepted == \A s \in tokenLog.shown : Accepted(s) \/ s \in tokenLog.dropped \cup tokenLog.erased

(* An erased token comes back only when a request that had loaded the table  *)
(* before the erasure writes its copy after it (api-token-store.c:283).      *)
ErasedStaysOut == \A s \in tokenLog.erased : Accepted(s) => tokenLog.late

(* What the token store keeps to through failed writes, lost power and the   *)
(* factory reset: the table loads, what was shown works, what was deleted or *)
(* erased does not (api-token-store.c:205-607).                              *)
TokensSafe == TokenTypeOK /\ TokensLoad /\ ShownIsAccepted /\ DeletedStaysOut /\ ErasedStaysOut
=============================================================================
