-------------------------- MODULE AccountLifecycle --------------------------
(* The account of one installation: the secrets in the platform's key store,
   the encrypted database whose key derives from the master seed, the session
   token, and the operations of AuthService that change them, from start-up to
   logout. Key store and database are separate systems and each write is
   awaited on its own, so an operation can fail or the process can die
   between any two. The screens are modelled as far as they decide which
   operation can be started; operations that no screen keeps apart overlap.

   One position of an operation is one await; the action of that position is
   the awaited call with the synchronous code up to the next one. *)
EXTENDS Naturals, FiniteSets

CONSTANTS
    Identity,   \* key pairs, each with its id and its recovery phrase
    Seed,       \* values a drawn master seed can take
    Slot,       \* operations that can be under way at a time
    None        \* no identity, no seed, no file, no operation

ASSUME LifecycleAssumption == None \notin Identity \cup Seed

VARIABLES
    vault,   \* the key store: pair, phrase, master seed
    file,    \* the database file and what it holds
    open,    \* LocalDatabase._initialized
    db,      \* LocalDatabase._db is set
    user,    \* AuthService._currentUser
    token,   \* the account the stored session token belongs to
    screen,  \* what the user sees
    op,      \* the operation in each slot
    sync,    \* the account of a sync that waits for getConversations()
    overtaken  \* the kinds of operations a logout was started in the middle
               \* of (history)

vars == <<vault, file, open, db, user, token, screen, op, sync, overtaken>>

\* Mutation: the seed takes the place of the phrase.
SecretsSwapped == <<"pub", "priv", "seed", "phrase">>

\* In the order in which storeKeyPair and storeRecoveryPhrase write them and
\* clearAllAccountSecrets deletes them.
Secrets == <<"pub", "priv", "phrase", "seed">>
Account == {"pub", "priv", "phrase"}

NewFile(seed) == [key |-> seed, rows |-> {}, current |-> None, records |-> {}]

\* getUserProfile: the row current_user_id points at.
Profile(f) == IF f # None /\ f.current \in f.rows THEN f.current ELSE None

\* _ensureInitialized, and the file is there.
Usable == open /\ db /\ file # None

\* 32 random bytes are none of those in use.
Fresh == Seed \ ({vault["seed"]} \cup {f.key : f \in {file} \ {None}}
                 \cup {op[o].key : o \in {p \in Slot : op[p] # None}})

Init ==
    /\ vault = [k \in Account \cup {"seed"} |-> None]
    /\ file = None
    /\ open = FALSE
    /\ db = FALSE
    /\ user = None
    /\ token = None
    /\ screen = "splash"
    /\ op = [o \in Slot |-> None]
    /\ sync = None
    /\ overtaken = {}

-----------------------------------------------------------------------------
\* Positions

Runs(kind) == \E o \in Slot : op[o] # None /\ op[o].kind = kind

At(o, at) == op[o] # None /\ op[o].at = at

Begin(o, kind, id, at) ==
    /\ op[o] = None
    /\ op' = [op EXCEPT ![o] = [kind |-> kind, id |-> id, at |-> at,
                                n |-> 1, key |-> None]]

Move(o, at, n, key) ==
    op' = [op EXCEPT ![o] = [@ EXCEPT !.at = at, !.n = n, !.key = key]]

GoTo(o, at) == Move(o, at, 1, op[o].key)
Again(o) == Move(o, op[o].at, op[o].n + 1, op[o].key)
Done(o) == op' = [op EXCEPT ![o] = None]

-----------------------------------------------------------------------------
\* What the user starts

\* Splash screen, or "Try again" on it after an error.
Launch(o) ==
    /\ screen \in {"splash", "error"} /\ ~Runs("start")
    /\ Begin(o, "start", None, "look")
    /\ screen' = "splash"
    /\ UNCHANGED <<vault, file, open, db, user, token, sync, overtaken>>

\* Nothing on the onboarding screen keeps two of these apart; each only
\* disables its own button. The phrase of a new account is drawn.
CreateAccount(o, i) ==
    /\ screen = "onboarding" /\ user = None /\ ~Runs("create")
    /\ i \notin {vault[k] : k \in Account} /\ (file # None => i \notin file.rows)
    /\ Begin(o, "create", i, "keep")
    /\ UNCHANGED <<vault, file, open, db, user, token, screen, sync, overtaken>>

RestoreAccount(o, i, kind) ==
    /\ kind \in {"restore", "import"}
    /\ screen = "onboarding" /\ ~Runs("restore") /\ ~Runs("import")
    /\ Begin(o, kind, i, "keep")
    /\ UNCHANGED <<vault, file, open, db, user, token, screen, sync, overtaken>>

\* The phrase of the new account was copied.
ConfirmPhrase ==
    /\ screen = "onboarding" /\ user # None
    /\ screen' = "home"
    /\ UNCHANGED <<vault, file, open, db, user, token, op, sync, overtaken>>

\* No lock is set, or the device or the PIN admits the user.
Unlock ==
    /\ screen = "gate" /\ ~Runs("panic")
    /\ screen' = "home"
    /\ UNCHANGED <<vault, file, open, db, user, token, op, sync, overtaken>>

Connect(o) ==
    /\ screen = "home" /\ user # None
    /\ Begin(o, "connect", user, "request")
    /\ UNCHANGED <<vault, file, open, db, user, token, screen, sync, overtaken>>

\* The dialog is gone before logout() runs, and can be opened again. Nor does
\* logout() look whether an account is still being made behind the home screen.
Logout(o) ==
    /\ screen = "home"
    /\ Begin(o, "logout", None, "request")
    /\ overtaken' = overtaken \cup
          {kind \in {"create", "restore", "import", "logout"} : Runs(kind)}
    /\ UNCHANGED <<vault, file, open, db, user, token, screen, sync>>

PanicPin(o) ==
    /\ screen = "gate" /\ ~Runs("panic")
    /\ Begin(o, "panic", None, "request")
    /\ UNCHANGED <<vault, file, open, db, user, token, screen, sync, overtaken>>

\* "Data Erased": OK, or a tap beside the dialog, which uncovers the gate.
CloseErased ==
    /\ screen = "erased"
    /\ screen' \in {"onboarding", "gate"}
    /\ UNCHANGED <<vault, file, open, db, user, token, op, sync, overtaken>>

-----------------------------------------------------------------------------
\* createAccount, restoreAccount, restoreFromBackup: three writes to the key
\* store, two to the database; a backup is parsed before and its contacts,
\* conversations and messages follow.

\* Mutation: the phrase is not stored.
KeepPairOnly(o) ==
    /\ At(o, "keep")
    /\ vault' = [vault EXCEPT ![Secrets[op[o].n]] = op[o].id]
    /\ IF op[o].n < 2 THEN Again(o) ELSE GoTo(o, "row")
    /\ UNCHANGED <<file, open, db, user, token, screen, sync, overtaken>>

Keep(o) ==
    /\ At(o, "keep")
    /\ vault' = [vault EXCEPT ![Secrets[op[o].n]] = op[o].id]
    /\ IF op[o].n < 3 THEN Again(o) ELSE GoTo(o, "row")
    /\ UNCHANGED <<file, open, db, user, token, screen, sync, overtaken>>

SaveRow(o) ==
    /\ At(o, "row") /\ Usable
    /\ file' = [file EXCEPT !.rows = @ \cup {op[o].id}]
    /\ GoTo(o, "current")
    /\ UNCHANGED <<vault, open, db, user, token, screen, sync, overtaken>>

\* Only the login page leads home by itself; a new phrase is shown first.
Adopted(o) ==
    /\ user' = op[o].id
    /\ screen' = IF op[o].kind # "create" /\ screen = "onboarding"
                 THEN "home" ELSE screen
    /\ Done(o)

SaveCurrent(o) ==
    /\ At(o, "current") /\ Usable
    /\ file' = [file EXCEPT !.current = op[o].id]
    /\ IF op[o].kind = "import"
       THEN GoTo(o, "records") /\ UNCHANGED <<user, screen>>
       ELSE Adopted(o)
    /\ UNCHANGED <<vault, open, db, token, sync, overtaken>>

ImportRecords(o) ==
    /\ At(o, "records") /\ Usable
    /\ file' = [file EXCEPT !.records = @ \cup {op[o].id}]
    /\ Adopted(o)
    /\ UNCHANGED <<vault, open, db, token, sync, overtaken>>

-----------------------------------------------------------------------------
\* AuthService.logout, and connectAccount, which begins with the first step

\* ApiService.logout: answered or not, the token goes.
ForgetToken(o) ==
    /\ At(o, "request")
    /\ token' = None
    /\ GoTo(o, IF op[o].kind = "connect" THEN "claim" ELSE "close")
    /\ UNCHANGED <<vault, file, open, db, user, screen, sync, overtaken>>

\* The server admits a pair only under the id made of it.
Claim(o) ==
    /\ At(o, "claim")
    /\ vault["pub"] = op[o].id /\ vault["priv"] = op[o].id
    /\ GoTo(o, "save")
    /\ UNCHANGED <<vault, file, open, db, user, token, screen, sync, overtaken>>

SaveAuth(o) ==
    /\ At(o, "save")
    /\ token' = op[o].id
    /\ Done(o)
    /\ UNCHANGED <<vault, file, open, db, user, screen, sync, overtaken>>

\* Mutation: the secrets are cleared before the database is removed.
CloseThenErase(o) ==
    /\ At(o, "close")
    /\ open' = FALSE /\ db' = FALSE
    /\ GoTo(o, "erase")
    /\ UNCHANGED <<vault, file, user, token, screen, sync, overtaken>>

Close(o) ==
    /\ At(o, "close")
    /\ open' = FALSE /\ db' = FALSE
    /\ GoTo(o, "remove")
    /\ UNCHANGED <<vault, file, user, token, screen, sync, overtaken>>

Remove(o) ==
    /\ At(o, "remove")
    /\ file' = None
    /\ GoTo(o, "erase")
    /\ UNCHANGED <<vault, open, db, user, token, screen, sync, overtaken>>

\* Mutation: the profile stays in memory.
EraseStoreOnly(o) ==
    /\ At(o, "erase")
    /\ vault' = [vault EXCEPT ![Secrets[op[o].n]] = None]
    /\ IF op[o].n < 4 THEN Again(o) ELSE GoTo(o, "look")
    /\ UNCHANGED <<file, open, db, user, token, screen, sync, overtaken>>

\* clearAllAccountSecrets, one key after the other. Three more keys it
\* deletes are never written, and the epoch of the identity is 0.
Erase(o) ==
    /\ At(o, "erase")
    /\ vault' = [vault EXCEPT ![Secrets[op[o].n]] = None]
    /\ IF op[o].n < 4
       THEN Again(o) /\ UNCHANGED user
       ELSE GoTo(o, "look") /\ user' = None
    /\ UNCHANGED <<file, open, db, token, screen, sync, overtaken>>

-----------------------------------------------------------------------------
\* LocalDatabase.init, at start-up and at the end of logout

\* Start-up goes on with the profile; a logout leaves the screen it began on.
Finish(o) ==
    /\ Done(o)
    /\ CASE op[o].kind = "start" ->
              /\ Usable
              /\ user' = Profile(file)
              /\ screen' = IF user' = None THEN "onboarding" ELSE "gate"
         [] op[o].kind = "logout" ->
              /\ screen' = IF screen = "home" THEN "onboarding" ELSE screen
              /\ UNCHANGED user
         [] op[o].kind = "panic" ->
              /\ screen' = IF screen = "gate" THEN "erased" ELSE screen
              /\ UNCHANGED user

\* An initialized database is left alone.
Look(o) ==
    /\ At(o, "look")
    /\ IF open THEN Finish(o) ELSE GoTo(o, "derive") /\ UNCHANGED <<user, screen>>
    /\ UNCHANGED <<vault, file, open, db, token, sync, overtaken>>

\* The key is derived twice, for the file before it is opened and for the
\* fields after; both from the seed in the store.
Derived(o, seed) ==
    IF op[o].n = 1
    THEN Move(o, "open", 1, seed) /\ UNCHANGED open
    ELSE Move(o, "load", 1, seed) /\ open' = TRUE

Derive(o) ==
    /\ At(o, "derive")
    /\ IF vault["seed"] # None
       THEN Derived(o, vault["seed"])
       ELSE \E s \in Fresh : Move(o, "draw", op[o].n, s) /\ UNCHANGED open
    /\ UNCHANGED <<vault, file, db, user, token, screen, sync, overtaken>>

Draw(o) ==
    /\ At(o, "draw")
    /\ vault' = [vault EXCEPT !["seed"] = op[o].key]
    /\ Derived(o, op[o].key)
    /\ UNCHANGED <<file, db, user, token, screen, sync, overtaken>>

\* Creates the file, or opens it under the key it was created with. A path
\* that is open already gets the handle it has, whatever the key.
Open(o) ==
    /\ At(o, "open")
    /\ IF file = None THEN file' = NewFile(op[o].key)
                      ELSE (db \/ file.key = op[o].key) /\ UNCHANGED file
    /\ db' = TRUE
    /\ Move(o, "derive", 2, op[o].key)
    /\ UNCHANGED <<vault, open, user, token, screen, sync, overtaken>>

\* preloadSettings.
Load(o) ==
    /\ At(o, "load") /\ Usable
    /\ Finish(o)
    /\ UNCHANGED <<vault, file, open, db, token, sync, overtaken>>

-----------------------------------------------------------------------------
\* The rest of the application, failures and crashes

StartSync ==
    /\ screen = "home" /\ sync = None /\ token # None /\ Usable
    /\ sync' = token
    /\ UNCHANGED <<vault, file, open, db, user, token, screen, op, overtaken>>

\* The answer's contacts and conversations are written to whatever database
\* is open by then.
FinishSync ==
    /\ sync # None
    /\ file' = IF Usable
               THEN [file EXCEPT !.records = @ \cup {sync}] ELSE file
    /\ sync' = None
    /\ UNCHANGED <<vault, open, db, user, token, screen, op, overtaken>>

\* The awaited call throws, or a guard before it does: the operation ends
\* where it is, without undoing anything. Start-up says so.
Fail(o) ==
    /\ op[o] # None
    /\ Done(o)
    /\ screen' = IF op[o].kind = "start" THEN "error" ELSE screen
    /\ UNCHANGED <<vault, file, open, db, user, token, sync, overtaken>>

Crash ==
    /\ screen' = "splash"
    /\ open' = FALSE /\ db' = FALSE
    /\ user' = None
    /\ sync' = None
    /\ op' = [o \in Slot |-> None]
    /\ UNCHANGED <<vault, file, token, overtaken>>

UserStep(o) ==
    \/ Launch(o) \/ Connect(o) \/ Logout(o) \/ PanicPin(o)
    \/ \E i \in Identity :
          CreateAccount(o, i) \/ \E kind \in {"restore", "import"} : RestoreAccount(o, i, kind)

OperationStep(o) ==
    \/ Keep(o) \/ SaveRow(o) \/ SaveCurrent(o) \/ ImportRecords(o)
    \/ ForgetToken(o) \/ Claim(o) \/ SaveAuth(o)
    \/ Close(o) \/ Remove(o) \/ Erase(o)
    \/ Look(o) \/ Derive(o) \/ Draw(o) \/ Open(o) \/ Load(o)
    \/ Fail(o)

Next ==
    \/ \E o \in Slot : UserStep(o) \/ OperationStep(o)
    \/ ConfirmPhrase \/ Unlock \/ CloseErased
    \/ StartSync \/ FinishSync
    \/ Crash

Spec == Init /\ [][Next]_vars

-----------------------------------------------------------------------------
\* Properties

Operation == [ kind : {"start", "create", "restore", "import",
                       "connect", "logout", "panic"},
               at : {"keep", "row", "current", "records", "request", "claim",
                     "save", "close", "remove", "erase", "look", "derive",
                     "draw", "open", "load"},
               id : Identity \cup {None}, n : 1 .. 4, key : Seed \cup {None} ]

File == [ key : Seed, rows : SUBSET Identity, current : Identity \cup {None},
          records : SUBSET Identity ]

\* Stores, file, screens and operations are well formed.
TypeOK ==
    /\ vault \in [Account \cup {"seed"} -> Identity \cup Seed \cup {None}]
    /\ vault["seed"] \in Seed \cup {None}
    /\ file \in File \cup {None}
    /\ open \in BOOLEAN /\ db \in BOOLEAN
    /\ user \in Identity \cup {None}
    /\ token \in Identity \cup {None}
    /\ screen \in {"splash", "error", "onboarding", "gate", "home", "erased"}
    /\ op \in [Slot -> Operation \cup {None}]
    /\ sync \in Identity \cup {None}
    /\ overtaken \subseteq {"create", "restore", "import", "logout"}

\* Wherever start-up or logout fails or dies, the next start finds the seed
\* the file's key was derived from: the seed is stored before the file is
\* created and deleted after it. Otherwise the database could never be opened
\* again, and "Try again" would fail for ever. It takes logouts that did not
\* run into each other.
DatabaseOpens ==
    "logout" \notin overtaken /\ file # None => vault["seed"] = file.key

\* A profile that start-up would find has its key pair and its phrase in the
\* key store, so it can connect, and Settings show its own phrase instead of
\* the sample words they fall back to; unless a logout was started in the
\* middle of another operation on the account.
AccountIsUsable ==
    overtaken = {} /\ file # None /\ file.current # None =>
        /\ file.current \in file.rows
        /\ \A k \in Account : vault[k] # None

\* "Local account data and keys have been removed" is true when it is shown:
\* nothing of the account is left in the store or memory, the database is a new
\* one, and no sync of an earlier screen is left to write anything back.
ErasedMeansErased ==
    screen = "erased" =>
        /\ \A k \in Account : vault[k] = None
        /\ user = None /\ token = None /\ sync = None
        /\ file = NewFile(vault["seed"])

=============================================================================
