----------------------- MODULE AccountLifecycle_proofs -----------------------
(***************************************************************************)
(* AccountLifecycle for every set of identities and seeds and any number   *)
(* of operations under way at a time.                                      *)
(*                                                                         *)
(* The inductive invariant says what each position of an operation can     *)
(* rely on: what it has stored or removed so far, on which screens it runs *)
(* and which other operations run beside it. Start-up and the panic logout *)
(* always run alone. A logout of the settings can rely on its database     *)
(* being its own only while no other logout was started before the end of  *)
(* one, and the making of an account on what it has stored only while no   *)
(* logout was started in the middle of it.                                 *)
(***************************************************************************)
EXTENDS AccountLifecycle, TLAPS

Making == {"create", "restore", "import"}

Adopting == {"keep", "row", "current", "records"}
Erasing == {"close", "remove", "erase"}
Opening == {"look", "derive", "draw", "open", "load"}

\* Which operation can be at which position, and what it carries there.
Placed(x) ==
    /\ x.at \in Adopting => x.kind \in Making /\ x.id \in Identity
    /\ x.at \in {"claim", "save"} => x.kind = "connect" /\ x.id \in Identity
    /\ x.at = "request" => \/ x.kind = "connect" /\ x.id \in Identity
                           \/ x.kind \in {"logout", "panic"}
    /\ x.at \in Erasing => x.kind \in {"logout", "panic"}
    /\ x.at \in Opening => x.kind \in {"start", "logout", "panic"}
    /\ x.at = "keep" => x.n < 4
    /\ x.at = "look" => x.n = 1
    /\ x.at \in {"draw", "open"} => x.key \in Seed

\* The seed is removed without a file, drawn when there was none, and still
\* there when the key is derived again; the file is opened with the key
\* derived from it.
SeedAt(x) ==
    x.kind = "panic" \/ "logout" \notin overtaken =>
        /\ x.at = "erase" => file = None
        /\ x.at = "draw" => x.n = 1 /\ vault["seed"] = None
        /\ x.at = "open" => x.key = vault["seed"]
        /\ x.at = "derive" /\ x.n # 1 => vault["seed"] # None

\* What createAccount and the restores have stored so far.
StoredAt(x) ==
    overtaken = {} =>
        /\ x.at = "keep" => \A j \in 1 .. 3 : j < x.n => vault[Secrets[j]] # None
        /\ x.at \in {"row", "current", "records"} => \A k \in Account : vault[k] # None
        /\ x.at = "current" /\ file # None => x.id \in file.rows

\* What the panic logout has removed so far.
PanicAt(x) ==
    x.kind = "panic" =>
        /\ x.at \in Erasing => token = None
        /\ x.at \in {"remove", "erase"} => ~open
        /\ x.at = "erase" => \A j \in 1 .. 3 : j < x.n => vault[Secrets[j]] = None
        /\ x.at \in Opening =>
              /\ token = None /\ user = None
              /\ \A k \in Account : vault[k] = None
              /\ x.at # "load" => ~open
              /\ x.at \in {"look", "derive", "draw", "open"} /\ x.n = 1 => file = None
              /\ x.at = "load" \/ x.n # 1 => file = NewFile(vault["seed"])

\* Where the operations of each kind can be seen running.
ScreenOf(x) ==
    /\ x.kind = "start" => screen = "splash"
    /\ x.kind = "panic" => screen = "gate"
    /\ x.kind \notin {"start", "panic"} => screen \in {"onboarding", "home"}
    /\ x.kind = "logout" /\ "logout" \notin overtaken => screen = "home"

\* Two operations that can be under way at the same time.
Beside(x, y) ==
    /\ x.kind \notin {"start", "panic"} /\ y.kind \notin {"start", "panic"}
    /\ "logout" \notin overtaken => ~(x.kind = "logout" /\ y.kind = "logout")
    /\ overtaken = {} => /\ ~(x.kind = "logout" /\ y.kind \in Making)
                         /\ ~(y.kind = "logout" /\ x.kind \in Making)

Apart ==
    \A o, p \in Slot :
        o # p /\ op[o] # None /\ op[p] # None => Beside(op[o], op[p])

\* A sync starts on the home screen and ends with it or with the process.
SyncInv == sync # None => screen \in {"home", "onboarding"}

IInv ==
    /\ TypeOK
    /\ DatabaseOpens
    /\ AccountIsUsable
    /\ ErasedMeansErased
    /\ SyncInv
    /\ Apart
    /\ \A o \in Slot : op[o] # None =>
          /\ Placed(op[o]) /\ SeedAt(op[o]) /\ StoredAt(op[o])
          /\ PanicAt(op[o]) /\ ScreenOf(op[o])

-----------------------------------------------------------------------------
\* The invariant in its parts: the state, each operation, and any two of them

StateTypes ==
    /\ vault \in [Account \cup {"seed"} -> Identity \cup Seed \cup {None}]
    /\ vault["seed"] \in Seed \cup {None}
    /\ file \in File \cup {None}
    /\ open \in BOOLEAN /\ db \in BOOLEAN
    /\ user \in Identity \cup {None}
    /\ token \in Identity \cup {None}
    /\ screen \in {"splash", "error", "onboarding", "gate", "home", "erased"}
    /\ sync \in Identity \cup {None}
    /\ overtaken \subseteq {"create", "restore", "import", "logout"}

StateInv ==
    StateTypes /\ DatabaseOpens /\ AccountIsUsable /\ ErasedMeansErased /\ SyncInv

OpInv(x) ==
    x # None =>
        Placed(x) /\ SeedAt(x) /\ StoredAt(x) /\ PanicAt(x) /\ ScreenOf(x)

LEMMA Parts ==
    ASSUME IInv
    PROVE  /\ StateInv
           /\ op \in [Slot -> Operation \cup {None}]
           /\ Apart
           /\ \A o \in Slot : OpInv(op[o])
  BY DEF IInv, StateInv, StateTypes, OpInv, TypeOK

\* What an operation relies on does not name the slot it is in.
LEMMA RestKept ==
    ASSUME NEW p \in Slot, NEW y, op'[p] = y, OpInv(y)'
    PROVE  OpInv(op[p])'
  BY DEF OpInv, Placed, SeedAt, StoredAt, PanicAt, ScreenOf

\* After a step of the operation at o, which is x now.
LEMMA AfterStep ==
    ASSUME IInv, NEW o \in Slot, op[o] # None, NEW x \in Operation \cup {None},
           x # None => x.kind = op[o].kind,
           op' = [op EXCEPT ![o] = x], overtaken' = overtaken,
           StateInv', OpInv(x)',
           \A y \in Operation : OpInv(y) /\ Beside(y, op[o]) => OpInv(y)'
    PROVE  IInv'
<1>1. /\ op \in [Slot -> Operation \cup {None}]
      /\ Apart /\ \A p \in Slot : OpInv(op[p])
  BY Parts
<1>2. op' \in [Slot -> Operation \cup {None}]
  BY <1>1
<1>3. ASSUME NEW p \in Slot PROVE OpInv(op[p])'
  <2>1. CASE p = o
    BY <1>1, <2>1, RestKept
  <2>2. CASE p # o /\ op[p] = None
    BY <1>1, <2>2 DEF OpInv
  <2>3. CASE p # o /\ op[p] # None
    <3>1. PICK y \in Operation : y = op[p]
      BY <1>1, <2>3
    <3>2. OpInv(y) /\ Beside(y, op[o]) /\ op'[p] = y
      BY <1>1, <2>3, <3>1 DEF Apart
    <3>3. OpInv(y)'
      BY <3>2
    <3>4. QED
      BY <3>2, <3>3, RestKept
  <2>4. QED
    BY <2>1, <2>2, <2>3
<1>4. Apart'
  BY <1>1 DEF Apart, Beside
<1>5. QED
  <2>1. (\A p \in Slot : OpInv(op[p]))'
    BY <1>3
  <2>2. (op \in [Slot -> Operation \cup {None}])'
    BY <1>2
  <2>3. QED
    BY <1>4, <2>1, <2>2 DEF IInv, StateInv, StateTypes, OpInv, TypeOK

LEMMA AfterMove ==
    ASSUME IInv, NEW o \in Slot, op[o] # None, NEW x \in Operation,
           x.kind = op[o].kind,
           op' = [op EXCEPT ![o] = x], overtaken' = overtaken,
           StateInv', OpInv(x)',
           \A y \in Operation : OpInv(y) /\ Beside(y, op[o]) => OpInv(y)'
    PROVE  IInv'
  BY AfterStep

LEMMA AfterDone ==
    ASSUME IInv, NEW o \in Slot, op[o] # None,
           op' = [op EXCEPT ![o] = None], overtaken' = overtaken, StateInv',
           \A y \in Operation : OpInv(y) /\ Beside(y, op[o]) => OpInv(y)'
    PROVE  IInv'
<1>1. OpInv(None)'
  BY DEF OpInv
<1>2. PICK x \in Operation \cup {None} : x = None
  OBVIOUS
<1>3. QED
  BY <1>1, <1>2, AfterStep

\* After x was started at o.
LEMMA AfterBegin ==
    ASSUME IInv, NEW o \in Slot, op[o] = None, NEW x \in Operation,
           op' = [op EXCEPT ![o] = x], overtaken \subseteq overtaken',
           StateInv', OpInv(x)',
           \A p \in Slot, y \in Operation :
              y = op[p] /\ y # None /\ OpInv(y) => OpInv(y)' /\ Beside(x, y)'
    PROVE  IInv'
<1>1. /\ op \in [Slot -> Operation \cup {None}]
      /\ Apart /\ \A p \in Slot : OpInv(op[p])
  BY Parts
<1>2. op' \in [Slot -> Operation \cup {None}]
  BY <1>1
<1>3. ASSUME NEW p \in Slot, p # o, op[p] # None
      PROVE  /\ op'[p] = op[p]
             /\ OpInv(op[p])'
             /\ Beside(op[o], op[p])'
  <2>1. PICK y \in Operation : y = op[p]
    BY <1>1, <1>3
  <2>2. OpInv(y)' /\ Beside(x, y)' /\ op'[p] = y /\ op'[o] = x
    BY <1>1, <1>3, <2>1
  <2>3. QED
    BY <2>1, <2>2, RestKept DEF Beside
<1>4. ASSUME NEW p \in Slot PROVE OpInv(op[p])'
  <2>1. CASE p = o
    BY <1>1, <2>1, RestKept
  <2>2. CASE p # o /\ op[p] = None
    BY <1>1, <2>2 DEF OpInv
  <2>3. QED
    BY <1>3, <2>1, <2>2
<1>5. Apart'
  <2>1. ASSUME NEW p \in Slot, NEW q \in Slot, p # q, op'[p] # None, op'[q] # None
        PROVE  Beside(op[p], op[q])'
    <3>1. CASE p = o
      BY <1>1, <1>3, <2>1, <3>1
    <3>2. CASE q = o
      <4>1. Beside(op[o], op[p])'
        BY <1>1, <1>3, <2>1, <3>2
      <4>2. QED
        BY <3>2, <4>1 DEF Beside
    <3>3. CASE p # o /\ q # o
      <4>1. op'[p] = op[p] /\ op'[q] = op[q] /\ Beside(op[p], op[q])
        BY <1>1, <2>1, <3>3 DEF Apart
      <4>2. QED
        BY <4>1 DEF Beside
    <3>4. QED
      BY <3>1, <3>2, <3>3
  <2>2. QED
    BY <2>1 DEF Apart
<1>6. QED
  <2>1. (\A p \in Slot : OpInv(op[p]))'
    BY <1>4
  <2>2. (op \in [Slot -> Operation \cup {None}])'
    BY <1>2
  <2>3. QED
    BY <1>5, <2>1, <2>2 DEF IInv, StateInv, StateTypes, OpInv, TypeOK

-----------------------------------------------------------------------------
\* Steps of an operation

Position == {"keep", "row", "current", "records", "request", "claim", "save",
             "close", "remove", "erase", "look", "derive", "draw", "open", "load"}

Kind == {"start", "create", "restore", "import", "connect", "logout", "panic"}

\* x is the operation y, moved.
Moved(x, y, at, n, key) ==
    x.kind = y.kind /\ x.id = y.id /\ x.at = at /\ x.n = n /\ x.key = key

LEMMA MoveMoves ==
    ASSUME op \in [Slot -> Operation \cup {None}], NEW o \in Slot,
           op[o] \in Operation,
           NEW at \in Position, NEW n \in 1 .. 4, NEW key \in Seed \cup {None},
           Move(o, at, n, key)
    PROVE  \E x \in Operation : /\ Moved(x, op[o], at, n, key)
                                /\ op' = [op EXCEPT ![o] = x]
<1> DEFINE y == op[o]
           R(a, m, k) == [kind |-> y.kind, id |-> y.id, at |-> a, n |-> m, key |-> k]
<1>1. [y EXCEPT !.at = at] = R(at, y.n, y.key)
  BY DEF Operation
<1>2. [R(at, y.n, y.key) EXCEPT !.n = n] = R(at, n, y.key)
  OBVIOUS
<1>3. [R(at, n, y.key) EXCEPT !.key = key] = R(at, n, key)
  OBVIOUS
<1>4. op' = [op EXCEPT ![o] = [[[y EXCEPT !.at = at] EXCEPT !.n = n] EXCEPT !.key = key]]
  BY DEF Move
<1>5. op' = [op EXCEPT ![o] = R(at, n, key)]
  BY <1>1, <1>2, <1>3, <1>4
<1>6. R(at, n, key) \in Operation /\ Moved(R(at, n, key), y, at, n, key)
  BY DEF Operation, Position, Moved
<1>7. QED
  BY <1>5, <1>6

\* x is an operation that begins.
Started(x, kind, id, at) ==
    x.kind = kind /\ x.id = id /\ x.at = at /\ x.n = 1 /\ x.key = None

LEMMA BeginStarts ==
    ASSUME op \in [Slot -> Operation \cup {None}], NEW o \in Slot,
           NEW kind \in Kind, NEW id \in Identity \cup {None},
           NEW at \in Position, Begin(o, kind, id, at)
    PROVE  \E x \in Operation : Started(x, kind, id, at) /\ op' = [op EXCEPT ![o] = x]
<1> DEFINE x == [kind |-> kind, id |-> id, at |-> at, n |-> 1, key |-> None]
<1>1. x \in Operation /\ Started(x, kind, id, at)
  BY DEF Operation, Kind, Position, Started
<1>2. op' = [op EXCEPT ![o] = x]
  BY DEF Begin
<1>3. QED
  BY <1>1, <1>2

\* Every operation that starts with ApiService.logout goes on without a token.
LEMMA ForgetTokenStep ==
    ASSUME IInv, NEW o \in Slot, ForgetToken(o)
    PROVE  IInv'
<1>1. /\ StateInv
      /\ op \in [Slot -> Operation \cup {None}]
      /\ op[o] \in Operation /\ op[o] # None /\ OpInv(op[o])
  BY Parts DEF ForgetToken, At, OpInv
<1> DEFINE at == IF op[o].kind = "connect" THEN "claim" ELSE "close"
           n == 1
           key == op[o].key
<1>a. at \in Position /\ n \in 1 .. 4 /\ key \in Seed \cup {None}
  BY <1>1 DEF ForgetToken, At, Position, Operation, OpInv, Placed, Adopting
<1>b. Move(o, at, n, key)
  BY <1>1 DEF ForgetToken, At, GoTo
<1>2. PICK x \in Operation : Moved(x, op[o], at, n, key) /\ op' = [op EXCEPT ![o] = x]
  <2> HIDE DEF at, n, key
  <2> QED
    BY <1>1, <1>a, <1>b, MoveMoves
<1>3. StateInv'
  BY <1>1, LifecycleAssumption DEF ForgetToken, At, OpInv, Placed, SeedAt,
     StoredAt, PanicAt, ScreenOf, Adopting, Erasing, Opening, StateInv,
     StateTypes, DatabaseOpens, AccountIsUsable, ErasedMeansErased, SyncInv,
     Account, Secrets
<1>4. OpInv(x)'
  BY <1>1, <1>2, LifecycleAssumption DEF ForgetToken, At, Moved, OpInv, Placed,
     SeedAt, StoredAt, PanicAt, ScreenOf, Adopting, Erasing, Opening, StateInv,
     StateTypes, DatabaseOpens, AccountIsUsable, ErasedMeansErased, SyncInv,
     Account, Secrets
<1>5. ASSUME NEW y \in Operation, OpInv(y), Beside(y, op[o])
      PROVE  OpInv(y)'
  BY <1>1, <1>5, LifecycleAssumption DEF ForgetToken, At, Beside, OpInv, Placed,
     SeedAt, StoredAt, PanicAt, ScreenOf, Adopting, Erasing, Opening, Account,
     Secrets
<1>6. QED
  BY <1>1, <1>2, <1>3, <1>4, <1>5, AfterMove DEF ForgetToken, Moved

\* A pair that is admitted changes nothing on the device.
LEMMA ClaimStep ==
    ASSUME IInv, NEW o \in Slot, Claim(o)
    PROVE  IInv'
<1>1. /\ StateInv
      /\ op \in [Slot -> Operation \cup {None}]
      /\ op[o] \in Operation /\ op[o] # None /\ OpInv(op[o])
  BY Parts DEF Claim, At, OpInv
<1> DEFINE at == "save"
           n == 1
           key == op[o].key
<1>a. at \in Position /\ n \in 1 .. 4 /\ key \in Seed \cup {None}
  BY <1>1 DEF Claim, At, Position, Operation, OpInv, Placed, Adopting
<1>b. Move(o, at, n, key)
  BY <1>1 DEF Claim, At, GoTo
<1>2. PICK x \in Operation : Moved(x, op[o], at, n, key) /\ op' = [op EXCEPT ![o] = x]
  <2> HIDE DEF at, n, key
  <2> QED
    BY <1>1, <1>a, <1>b, MoveMoves
<1>3. StateInv'
  BY <1>1, LifecycleAssumption DEF Claim, At, OpInv, Placed, SeedAt, StoredAt,
     PanicAt, ScreenOf, Adopting, Erasing, Opening, StateInv, StateTypes,
     DatabaseOpens, AccountIsUsable, ErasedMeansErased, SyncInv, Account,
     Secrets
<1>4. OpInv(x)'
  BY <1>1, <1>2, LifecycleAssumption DEF Claim, At, Moved, OpInv, Placed,
     SeedAt, StoredAt, PanicAt, ScreenOf, Adopting, Erasing, Opening, StateInv,
     StateTypes, DatabaseOpens, AccountIsUsable, ErasedMeansErased, SyncInv,
     Account, Secrets
<1>5. ASSUME NEW y \in Operation, OpInv(y), Beside(y, op[o])
      PROVE  OpInv(y)'
  BY <1>1, <1>5, LifecycleAssumption DEF Claim, At, Beside, OpInv, Placed,
     SeedAt, StoredAt, PanicAt, ScreenOf, Adopting, Erasing, Opening, Account,
     Secrets
<1>6. QED
  BY <1>1, <1>2, <1>3, <1>4, <1>5, AfterMove DEF Claim, Moved

\* The file is still there, and its seed too.
LEMMA CloseStep ==
    ASSUME IInv, NEW o \in Slot, Close(o)
    PROVE  IInv'
<1>1. /\ StateInv
      /\ op \in [Slot -> Operation \cup {None}]
      /\ op[o] \in Operation /\ op[o] # None /\ OpInv(op[o])
  BY Parts DEF Close, At, OpInv
<1> DEFINE at == "remove"
           n == 1
           key == op[o].key
<1>a. at \in Position /\ n \in 1 .. 4 /\ key \in Seed \cup {None}
  BY <1>1 DEF Close, At, Position, Operation, OpInv, Placed, Adopting
<1>b. Move(o, at, n, key)
  BY <1>1 DEF Close, At, GoTo
<1>2. PICK x \in Operation : Moved(x, op[o], at, n, key) /\ op' = [op EXCEPT ![o] = x]
  <2> HIDE DEF at, n, key
  <2> QED
    BY <1>1, <1>a, <1>b, MoveMoves
<1>3. StateInv'
  BY <1>1 DEF Close, OpInv, ScreenOf, StateInv, StateTypes, DatabaseOpens,
     AccountIsUsable, ErasedMeansErased, SyncInv
<1>4. OpInv(x)'
  BY <1>1, <1>2, LifecycleAssumption DEF Close, At, Moved, OpInv, Placed,
     SeedAt, StoredAt, PanicAt, ScreenOf, Adopting, Erasing, Opening, StateInv,
     StateTypes, DatabaseOpens, AccountIsUsable, ErasedMeansErased, SyncInv,
     Account, Secrets
<1>5. ASSUME NEW y \in Operation, OpInv(y), Beside(y, op[o])
      PROVE  OpInv(y)'
  BY <1>1, <1>5, LifecycleAssumption DEF Close, At, Beside, OpInv, Placed,
     SeedAt, StoredAt, PanicAt, ScreenOf, Adopting, Erasing, Opening, Account,
     Secrets
<1>6. QED
  BY <1>1, <1>2, <1>3, <1>4, <1>5, AfterMove DEF Close, Moved

\* From here on there is no file to lose the seed of.
LEMMA RemoveStep ==
    ASSUME IInv, NEW o \in Slot, Remove(o)
    PROVE  IInv'
<1>1. /\ StateInv
      /\ op \in [Slot -> Operation \cup {None}]
      /\ op[o] \in Operation /\ op[o] # None /\ OpInv(op[o])
  BY Parts DEF Remove, At, OpInv
<1> DEFINE at == "erase"
           n == 1
           key == op[o].key
<1>a. at \in Position /\ n \in 1 .. 4 /\ key \in Seed \cup {None}
  BY <1>1 DEF Remove, At, Position, Operation, OpInv, Placed, Adopting
<1>b. Move(o, at, n, key)
  BY <1>1 DEF Remove, At, GoTo
<1>2. PICK x \in Operation : Moved(x, op[o], at, n, key) /\ op' = [op EXCEPT ![o] = x]
  <2> HIDE DEF at, n, key
  <2> QED
    BY <1>1, <1>a, <1>b, MoveMoves
<1>3. StateInv'
  BY <1>1, LifecycleAssumption DEF Remove, At, OpInv, Placed, SeedAt, StoredAt,
     PanicAt, ScreenOf, Adopting, Erasing, Opening, StateInv, StateTypes,
     DatabaseOpens, AccountIsUsable, ErasedMeansErased, SyncInv, Account,
     Secrets, File, NewFile
<1>4. OpInv(x)'
  BY <1>1, <1>2, LifecycleAssumption DEF Remove, At, Moved, OpInv, Placed,
     SeedAt, StoredAt, PanicAt, ScreenOf, Adopting, Erasing, Opening, StateInv,
     StateTypes, DatabaseOpens, AccountIsUsable, ErasedMeansErased, SyncInv,
     Account, Secrets
<1>5. ASSUME NEW y \in Operation, OpInv(y), Beside(y, op[o])
      PROVE  OpInv(y)'
  BY <1>1, <1>5, LifecycleAssumption DEF Remove, At, Beside, OpInv, Placed,
     SeedAt, StoredAt, PanicAt, ScreenOf, Adopting, Erasing, Opening, Account,
     Secrets
<1>6. QED
  BY <1>1, <1>2, <1>3, <1>4, <1>5, AfterMove DEF Remove, Moved

\* The row is there before anything points at it.
LEMMA SaveRowStep ==
    ASSUME IInv, NEW o \in Slot, SaveRow(o)
    PROVE  IInv'
<1>1. /\ StateInv
      /\ op \in [Slot -> Operation \cup {None}]
      /\ op[o] \in Operation /\ op[o] # None /\ OpInv(op[o])
  BY Parts DEF SaveRow, At, OpInv
<1> DEFINE at == "current"
           n == 1
           key == op[o].key
<1>a. at \in Position /\ n \in 1 .. 4 /\ key \in Seed \cup {None}
  BY <1>1 DEF SaveRow, At, Position, Operation, OpInv, Placed, Adopting
<1>b. Move(o, at, n, key)
  BY <1>1 DEF SaveRow, At, GoTo
<1>2. PICK x \in Operation : Moved(x, op[o], at, n, key) /\ op' = [op EXCEPT ![o] = x]
  <2> HIDE DEF at, n, key
  <2> QED
    BY <1>1, <1>a, <1>b, MoveMoves
<1>3. StateInv'
  BY <1>1, LifecycleAssumption DEF SaveRow, At, OpInv, Placed, SeedAt, StoredAt,
     PanicAt, ScreenOf, Adopting, Erasing, Opening, StateInv, StateTypes,
     DatabaseOpens, AccountIsUsable, ErasedMeansErased, SyncInv, Account,
     Secrets, File, Usable
<1>4. OpInv(x)'
  BY <1>1, <1>2, LifecycleAssumption DEF SaveRow, At, Moved, OpInv, Placed,
     SeedAt, StoredAt, PanicAt, ScreenOf, Adopting, Erasing, Opening, StateInv,
     StateTypes, DatabaseOpens, AccountIsUsable, ErasedMeansErased, SyncInv,
     Account, Secrets, File, Usable
<1>5. ASSUME NEW y \in Operation, OpInv(y), Beside(y, op[o])
      PROVE  OpInv(y)'
  BY <1>1, <1>5, LifecycleAssumption DEF SaveRow, At, Beside, OpInv, Placed,
     SeedAt, StoredAt, PanicAt, ScreenOf, Adopting, Erasing, Opening, Account,
     Secrets, File, Usable, StateInv, StateTypes
<1>6. QED
  BY <1>1, <1>2, <1>3, <1>4, <1>5, AfterMove DEF SaveRow, Moved

\* A new file is created under the stored seed.
LEMMA OpenStep ==
    ASSUME IInv, NEW o \in Slot, Open(o)
    PROVE  IInv'
<1>1. /\ StateInv
      /\ op \in [Slot -> Operation \cup {None}]
      /\ op[o] \in Operation /\ op[o] # None /\ OpInv(op[o])
  BY Parts DEF Open, At, OpInv
<1> DEFINE at == "derive"
           n == 2
           key == op[o].key
<1>a. at \in Position /\ n \in 1 .. 4 /\ key \in Seed \cup {None}
  BY <1>1 DEF Open, At, Position, Operation, OpInv, Placed, Adopting
<1>b. Move(o, at, n, key)
  BY <1>1 DEF Open, At, GoTo
<1>2. PICK x \in Operation : Moved(x, op[o], at, n, key) /\ op' = [op EXCEPT ![o] = x]
  <2> HIDE DEF at, n, key
  <2> QED
    BY <1>1, <1>a, <1>b, MoveMoves
<1>3. StateInv'
  BY <1>1, LifecycleAssumption DEF Open, At, OpInv, Placed, SeedAt, StoredAt,
     PanicAt, ScreenOf, Adopting, Erasing, Opening, StateInv, StateTypes,
     DatabaseOpens, AccountIsUsable, ErasedMeansErased, SyncInv, Account,
     Secrets, File, NewFile
<1>4. OpInv(x)'
  BY <1>1, <1>2, LifecycleAssumption DEF Open, At, Moved, OpInv, Placed, SeedAt,
     StoredAt, PanicAt, ScreenOf, Adopting, Erasing, Opening, StateInv,
     StateTypes, DatabaseOpens, AccountIsUsable, ErasedMeansErased, SyncInv,
     Account, Secrets, NewFile
<1>5. ASSUME NEW y \in Operation, OpInv(y), Beside(y, op[o])
      PROVE  OpInv(y)'
  BY <1>1, <1>5, LifecycleAssumption DEF Open, At, Beside, OpInv, Placed,
     SeedAt, StoredAt, PanicAt, ScreenOf, Adopting, Erasing, Opening, Account,
     Secrets
<1>6. QED
  BY <1>1, <1>2, <1>3, <1>4, <1>5, AfterMove DEF Open, Moved

\* What is stored is an identity's, so nothing stored goes missing.
LEMMA KeepStep ==
    ASSUME IInv, NEW o \in Slot, Keep(o)
    PROVE  IInv'
<1>1. /\ StateInv
      /\ op \in [Slot -> Operation \cup {None}]
      /\ op[o] \in Operation /\ op[o] # None /\ OpInv(op[o])
  BY Parts DEF Keep, At, OpInv
<1> DEFINE at == IF op[o].n < 3 THEN "keep" ELSE "row"
           n == IF op[o].n < 3 THEN op[o].n + 1 ELSE 1
           key == op[o].key
<1>a. at \in Position /\ n \in 1 .. 4 /\ key \in Seed \cup {None}
  BY <1>1 DEF Keep, At, Position, Operation, OpInv, Placed, Adopting
<1>b. Move(o, at, n, key)
  BY <1>1 DEF Keep, At, GoTo, Again
<1>2. PICK x \in Operation : Moved(x, op[o], at, n, key) /\ op' = [op EXCEPT ![o] = x]
  <2> HIDE DEF at, n, key
  <2> QED
    BY <1>1, <1>a, <1>b, MoveMoves
<1>c. op[o].n = 1 \/ op[o].n = 2 \/ op[o].n = 3
  BY <1>1 DEF Keep, At, Operation, OpInv, Placed, Adopting
<1>d. Secrets = <<"pub", "priv", "phrase", "seed">> /\ Account = {"pub", "priv", "phrase"}
  BY DEF Secrets, Account
<1> HIDE DEF at, n, key
<1>e. vault' = [vault EXCEPT ![Secrets[op[o].n]] = op[o].id]
  BY DEF Keep
<1>3. StateInv'
  <2>1. CASE op[o].n = 1
    BY <1>1, <1>d, <1>e, <2>1, LifecycleAssumption DEF Keep, at, n, key, At,
       Moved, Position, OpInv, Placed, SeedAt, StoredAt, PanicAt, ScreenOf,
       Adopting, Erasing, Opening, StateInv, StateTypes, DatabaseOpens,
       AccountIsUsable, ErasedMeansErased, SyncInv
  <2>2. CASE op[o].n = 2
    BY <1>1, <1>d, <1>e, <2>2, LifecycleAssumption DEF Keep, at, n, key, At,
       Moved, Position, OpInv, Placed, SeedAt, StoredAt, PanicAt, ScreenOf,
       Adopting, Erasing, Opening, StateInv, StateTypes, DatabaseOpens,
       AccountIsUsable, ErasedMeansErased, SyncInv
  <2>3. CASE op[o].n = 3
    BY <1>1, <1>d, <1>e, <2>3, LifecycleAssumption DEF Keep, at, n, key, At,
       Moved, Position, OpInv, Placed, SeedAt, StoredAt, PanicAt, ScreenOf,
       Adopting, Erasing, Opening, StateInv, StateTypes, DatabaseOpens,
       AccountIsUsable, ErasedMeansErased, SyncInv
  <2>4. QED
    BY <1>c, <2>1, <2>2, <2>3
<1>4. OpInv(x)'
  <2>1. CASE op[o].n = 1
    BY <1>1, <1>2, <1>d, <1>e, <2>1, LifecycleAssumption DEF Keep, at, n, key,
       At, Moved, Position, OpInv, Placed, SeedAt, StoredAt, PanicAt, ScreenOf,
       Adopting, Erasing, Opening, StateInv, StateTypes, DatabaseOpens,
       AccountIsUsable, ErasedMeansErased, SyncInv
  <2>2. CASE op[o].n = 2
    BY <1>1, <1>2, <1>d, <1>e, <2>2, LifecycleAssumption DEF Keep, at, n, key,
       At, Moved, Position, OpInv, Placed, SeedAt, StoredAt, PanicAt, ScreenOf,
       Adopting, Erasing, Opening, StateInv, StateTypes, DatabaseOpens,
       AccountIsUsable, ErasedMeansErased, SyncInv
  <2>3. CASE op[o].n = 3
    BY <1>1, <1>2, <1>d, <1>e, <2>3, LifecycleAssumption DEF Keep, at, n, key,
       At, Moved, Position, OpInv, Placed, SeedAt, StoredAt, PanicAt, ScreenOf,
       Adopting, Erasing, Opening, StateInv, StateTypes, DatabaseOpens,
       AccountIsUsable, ErasedMeansErased, SyncInv
  <2>4. QED
    BY <1>c, <2>1, <2>2, <2>3
<1>5. ASSUME NEW y \in Operation, OpInv(y), Beside(y, op[o])
      PROVE  OpInv(y)'
  <2>1. CASE op[o].n = 1
    BY <1>1, <1>5, <1>d, <1>e, <2>1, LifecycleAssumption DEF Keep, At, Beside,
       OpInv, Placed, SeedAt, StoredAt, PanicAt, ScreenOf, Adopting, Erasing,
       Opening, StateInv, StateTypes
  <2>2. CASE op[o].n = 2
    BY <1>1, <1>5, <1>d, <1>e, <2>2, LifecycleAssumption DEF Keep, At, Beside,
       OpInv, Placed, SeedAt, StoredAt, PanicAt, ScreenOf, Adopting, Erasing,
       Opening, StateInv, StateTypes
  <2>3. CASE op[o].n = 3
    BY <1>1, <1>5, <1>d, <1>e, <2>3, LifecycleAssumption DEF Keep, At, Beside,
       OpInv, Placed, SeedAt, StoredAt, PanicAt, ScreenOf, Adopting, Erasing,
       Opening, StateInv, StateTypes
  <2>4. QED
    BY <1>c, <2>1, <2>2, <2>3
<1>6. QED
  BY <1>1, <1>2, <1>3, <1>4, <1>5, AfterMove DEF Keep, Moved

\* Without a file there is no account whose secrets could be missed.
LEMMA EraseStep ==
    ASSUME IInv, NEW o \in Slot, Erase(o)
    PROVE  IInv'
<1>1. /\ StateInv
      /\ op \in [Slot -> Operation \cup {None}]
      /\ op[o] \in Operation /\ op[o] # None /\ OpInv(op[o])
  BY Parts DEF Erase, At, OpInv
<1> DEFINE at == IF op[o].n < 4 THEN "erase" ELSE "look"
           n == IF op[o].n < 4 THEN op[o].n + 1 ELSE 1
           key == op[o].key
<1>a. at \in Position /\ n \in 1 .. 4 /\ key \in Seed \cup {None}
  BY <1>1 DEF Erase, At, Position, Operation, OpInv, Placed, Adopting
<1>b. Move(o, at, n, key)
  BY <1>1 DEF Erase, At, GoTo, Again
<1>2. PICK x \in Operation : Moved(x, op[o], at, n, key) /\ op' = [op EXCEPT ![o] = x]
  <2> HIDE DEF at, n, key
  <2> QED
    BY <1>1, <1>a, <1>b, MoveMoves
<1>c. op[o].n = 1 \/ op[o].n = 2 \/ op[o].n = 3 \/ op[o].n = 4
  BY <1>1 DEF Erase, At, Operation, OpInv, Placed, Adopting
<1>d. Secrets = <<"pub", "priv", "phrase", "seed">> /\ Account = {"pub", "priv", "phrase"}
  BY DEF Secrets, Account
<1> HIDE DEF at, n, key
<1>e. vault' = [vault EXCEPT ![Secrets[op[o].n]] = None]
  BY DEF Erase
<1>3. StateInv'
  <2>1. CASE op[o].n = 1
    BY <1>1, <1>d, <1>e, <2>1, LifecycleAssumption DEF Erase, at, n, key, At,
       Moved, Position, OpInv, Placed, SeedAt, StoredAt, PanicAt, ScreenOf,
       Adopting, Erasing, Opening, StateInv, StateTypes, DatabaseOpens,
       AccountIsUsable, ErasedMeansErased, SyncInv
  <2>2. CASE op[o].n = 2
    BY <1>1, <1>d, <1>e, <2>2, LifecycleAssumption DEF Erase, at, n, key, At,
       Moved, Position, OpInv, Placed, SeedAt, StoredAt, PanicAt, ScreenOf,
       Adopting, Erasing, Opening, StateInv, StateTypes, DatabaseOpens,
       AccountIsUsable, ErasedMeansErased, SyncInv
  <2>3. CASE op[o].n = 3
    BY <1>1, <1>d, <1>e, <2>3, LifecycleAssumption DEF Erase, at, n, key, At,
       Moved, Position, OpInv, Placed, SeedAt, StoredAt, PanicAt, ScreenOf,
       Adopting, Erasing, Opening, StateInv, StateTypes, DatabaseOpens,
       AccountIsUsable, ErasedMeansErased, SyncInv
  <2>4. CASE op[o].n = 4
    BY <1>1, <1>d, <1>e, <2>4, LifecycleAssumption DEF Erase, at, n, key, At,
       Moved, Position, OpInv, Placed, SeedAt, StoredAt, PanicAt, ScreenOf,
       Adopting, Erasing, Opening, StateInv, StateTypes, DatabaseOpens,
       AccountIsUsable, ErasedMeansErased, SyncInv
  <2>5. QED
    BY <1>c, <2>1, <2>2, <2>3, <2>4
<1>4. OpInv(x)'
  <2>1. CASE op[o].n = 1
    BY <1>1, <1>2, <1>d, <1>e, <2>1, LifecycleAssumption DEF Erase, at, n, key,
       At, Moved, Position, OpInv, Placed, SeedAt, StoredAt, PanicAt, ScreenOf,
       Adopting, Erasing, Opening, StateInv, StateTypes, DatabaseOpens,
       AccountIsUsable, ErasedMeansErased, SyncInv
  <2>2. CASE op[o].n = 2
    BY <1>1, <1>2, <1>d, <1>e, <2>2, LifecycleAssumption DEF Erase, at, n, key,
       At, Moved, Position, OpInv, Placed, SeedAt, StoredAt, PanicAt, ScreenOf,
       Adopting, Erasing, Opening, StateInv, StateTypes, DatabaseOpens,
       AccountIsUsable, ErasedMeansErased, SyncInv
  <2>3. CASE op[o].n = 3
    BY <1>1, <1>2, <1>d, <1>e, <2>3, LifecycleAssumption DEF Erase, at, n, key,
       At, Moved, Position, OpInv, Placed, SeedAt, StoredAt, PanicAt, ScreenOf,
       Adopting, Erasing, Opening, StateInv, StateTypes, DatabaseOpens,
       AccountIsUsable, ErasedMeansErased, SyncInv
  <2>4. CASE op[o].n = 4
    BY <1>1, <1>2, <1>d, <1>e, <2>4, LifecycleAssumption DEF Erase, at, n, key,
       At, Moved, Position, OpInv, Placed, SeedAt, StoredAt, PanicAt, ScreenOf,
       Adopting, Erasing, Opening, StateInv, StateTypes, DatabaseOpens,
       AccountIsUsable, ErasedMeansErased, SyncInv
  <2>5. QED
    BY <1>c, <2>1, <2>2, <2>3, <2>4
<1>5. ASSUME NEW y \in Operation, OpInv(y), Beside(y, op[o])
      PROVE  OpInv(y)'
  <2>1. CASE op[o].n = 1
    BY <1>1, <1>5, <1>d, <1>e, <2>1, LifecycleAssumption DEF Erase, At, Beside,
       OpInv, Placed, SeedAt, StoredAt, PanicAt, ScreenOf, Adopting, Erasing,
       Opening, StateInv, StateTypes
  <2>2. CASE op[o].n = 2
    BY <1>1, <1>5, <1>d, <1>e, <2>2, LifecycleAssumption DEF Erase, At, Beside,
       OpInv, Placed, SeedAt, StoredAt, PanicAt, ScreenOf, Adopting, Erasing,
       Opening, StateInv, StateTypes
  <2>3. CASE op[o].n = 3
    BY <1>1, <1>5, <1>d, <1>e, <2>3, LifecycleAssumption DEF Erase, At, Beside,
       OpInv, Placed, SeedAt, StoredAt, PanicAt, ScreenOf, Adopting, Erasing,
       Opening, StateInv, StateTypes
  <2>4. CASE op[o].n = 4
    BY <1>1, <1>5, <1>d, <1>e, <2>4, LifecycleAssumption DEF Erase, At, Beside,
       OpInv, Placed, SeedAt, StoredAt, PanicAt, ScreenOf, Adopting, Erasing,
       Opening, StateInv, StateTypes
  <2>5. QED
    BY <1>c, <2>1, <2>2, <2>3, <2>4
<1>6. QED
  BY <1>1, <1>2, <1>3, <1>4, <1>5, AfterMove DEF Erase, Moved

\* A seed is drawn only when there is none, and then there is no file.
LEMMA DrawStep ==
    ASSUME IInv, NEW o \in Slot, Draw(o)
    PROVE  IInv'
<1>1. /\ StateInv
      /\ op \in [Slot -> Operation \cup {None}]
      /\ op[o] \in Operation /\ op[o] # None /\ OpInv(op[o])
  BY Parts DEF Draw, At, OpInv
<1> DEFINE at == IF op[o].n = 1 THEN "open" ELSE "load"
           n == 1
           key == op[o].key
<1>a. at \in Position /\ n \in 1 .. 4 /\ key \in Seed \cup {None}
  BY <1>1 DEF Draw, At, Position, Operation, OpInv, Placed, Adopting
<1>b. Move(o, at, n, key)
  BY <1>1 DEF Draw, At, Derived
<1>2. PICK x \in Operation : Moved(x, op[o], at, n, key) /\ op' = [op EXCEPT ![o] = x]
  <2> HIDE DEF at, n, key
  <2> QED
    BY <1>1, <1>a, <1>b, MoveMoves
<1>c. /\ op[o].key \in Seed /\ open' \in BOOLEAN
      /\ vault' = [vault EXCEPT !["seed"] = op[o].key]
      /\ UNCHANGED <<file, db, user, token, screen, sync, overtaken>>
  BY <1>1 DEF Draw, Derived, At, OpInv, Placed, StateInv, StateTypes
<1>d. /\ vault'["seed"] = op[o].key
      /\ \A k \in Account : vault'[k] = vault[k]
      /\ vault' \in [Account \cup {"seed"} -> Identity \cup Seed \cup {None}]
  BY <1>1, <1>c DEF StateInv, StateTypes, Account
<1>e. screen # "erased"
  BY <1>1 DEF OpInv, ScreenOf
<1>f. "logout" \notin overtaken => file = None
  BY <1>1, LifecycleAssumption DEF Draw, At, OpInv, SeedAt, StateInv, StateTypes,
     DatabaseOpens, File
<1>3. StateInv'
  BY <1>1, <1>c, <1>d, <1>e, <1>f DEF StateInv, StateTypes, DatabaseOpens,
     AccountIsUsable, ErasedMeansErased, SyncInv
<1>4. OpInv(x)'
  BY <1>1, <1>2, LifecycleAssumption DEF Draw, At, Moved, OpInv, Placed, SeedAt,
     StoredAt, PanicAt, ScreenOf, Adopting, Erasing, Opening, StateInv,
     StateTypes, DatabaseOpens, AccountIsUsable, ErasedMeansErased, SyncInv,
     Account, Secrets, Derived, File, NewFile
<1>5. ASSUME NEW y \in Operation, OpInv(y), Beside(y, op[o])
      PROVE  OpInv(y)'
  BY <1>1, <1>5, LifecycleAssumption DEF Draw, At, Beside, OpInv, Placed,
     SeedAt, StoredAt, PanicAt, ScreenOf, Adopting, Erasing, Opening, Account,
     Secrets
<1>6. QED
  BY <1>1, <1>2, <1>3, <1>4, <1>5, AfterMove DEF Draw, Moved

\* The stored seed, or a new one where there is none.
LEMMA DeriveStep ==
    ASSUME IInv, NEW o \in Slot, Derive(o)
    PROVE  IInv'
<1>1. /\ StateInv
      /\ op \in [Slot -> Operation \cup {None}]
      /\ op[o] \in Operation /\ op[o] # None /\ OpInv(op[o])
  BY Parts DEF Derive, At, OpInv
<1>2. op[o].at = "derive" /\ open' \in BOOLEAN
  BY <1>1 DEF Derive, At, Derived, StateInv, StateTypes
<1>3. StateInv'
  BY <1>1, <1>2 DEF Derive, StateInv, StateTypes, DatabaseOpens, AccountIsUsable,
     ErasedMeansErased, SyncInv
<1>4. ASSUME NEW y \in Operation, OpInv(y), Beside(y, op[o])
      PROVE  OpInv(y)'
  BY <1>4 DEF Derive, Beside, OpInv, Placed, SeedAt, StoredAt, PanicAt, ScreenOf
<1>5. CASE vault["seed"] # None
  <2> DEFINE at == IF op[o].n = 1 THEN "open" ELSE "load"
  <2>1. Move(o, at, 1, vault["seed"]) /\ (op[o].n = 1 => open' = open)
    BY <1>5 DEF Derive, Derived
  <2>2. PICK x \in Operation : /\ Moved(x, op[o], at, 1, vault["seed"])
                              /\ op' = [op EXCEPT ![o] = x]
    <3>1. at \in Position /\ 1 \in 1 .. 4 /\ vault["seed"] \in Seed \cup {None}
      BY <1>1 DEF Position, StateInv, StateTypes
    <3> HIDE DEF at
    <3>2. QED
      BY <1>1, <2>1, <3>1, MoveMoves
  <2>3. OpInv(x)'
    BY <1>1, <1>2, <1>5, <2>1, <2>2, LifecycleAssumption DEF Derive, Moved,
       OpInv, Placed, SeedAt, StoredAt, PanicAt, ScreenOf, Adopting, Erasing,
       Opening, StateInv, StateTypes
  <2>4. QED
    BY <1>1, <1>3, <1>4, <2>2, <2>3, AfterMove DEF Derive, Moved
<1>6. CASE vault["seed"] = None
  <2>1. PICK s \in Fresh : Move(o, "draw", op[o].n, s) /\ UNCHANGED open
    BY <1>6 DEF Derive
  <2>2. PICK x \in Operation : /\ Moved(x, op[o], "draw", op[o].n, s)
                              /\ op' = [op EXCEPT ![o] = x]
    <3>1. op[o].n \in 1 .. 4 /\ s \in Seed \cup {None} /\ "draw" \in Position
      BY <1>1 DEF Operation, Fresh, Position
    <3>2. QED
      BY <1>1, <2>1, <3>1, MoveMoves
  <2>3. s \in Seed
    BY DEF Fresh
  <2>4. OpInv(x)'
    BY <1>1, <1>2, <1>6, <2>1, <2>2, <2>3, LifecycleAssumption DEF Derive,
       Moved, OpInv, Placed, SeedAt, StoredAt, PanicAt, ScreenOf, Adopting,
       Erasing, Opening, StateInv, StateTypes
  <2>5. QED
    BY <1>1, <1>3, <1>4, <2>2, <2>4, AfterMove DEF Derive, Moved
<1>7. QED
  BY <1>5, <1>6


\* Only a panic logout that has loaded its new database says that it erased.
LEMMA FinishKeeps ==
    ASSUME StateInv, NEW o \in Slot, op[o] # None, OpInv(op[o]),
           op[o].at \in Opening, op[o].kind = "panic" => op[o].at = "load",
           Finish(o), UNCHANGED <<vault, file, open, db, token, sync, overtaken>>
    PROVE  StateInv'
<1>1. op[o].kind \in {"start", "logout", "panic"}
  BY DEF OpInv, Placed
<1>2. CASE op[o].kind = "start"
  <2>1. screen' \in {"onboarding", "gate"} /\ user' \in Identity \cup {None}
    BY <1>2 DEF Finish, Usable, Profile, StateInv, StateTypes, File
  <2>2. sync = None
    BY <1>2 DEF OpInv, ScreenOf, StateInv, SyncInv
  <2>3. QED
    BY <2>1, <2>2 DEF StateInv, StateTypes, DatabaseOpens, AccountIsUsable,
       ErasedMeansErased, SyncInv
<1>3. CASE op[o].kind = "logout"
  <2>1. screen' = "onboarding" /\ user' = user
    BY <1>3 DEF Finish, OpInv, ScreenOf
  <2>2. QED
    BY <2>1 DEF StateInv, StateTypes, DatabaseOpens, AccountIsUsable,
       ErasedMeansErased, SyncInv
<1>4. CASE op[o].kind = "panic"
  <2>1. screen' = "erased" /\ user' = user
    BY <1>4 DEF Finish, OpInv, ScreenOf
  <2>2. sync = None
    BY <1>4 DEF OpInv, ScreenOf, StateInv, SyncInv
  <2>3. /\ token = None /\ user = None /\ file = NewFile(vault["seed"])
        /\ \A k \in Account : vault[k] = None
    BY <1>4 DEF OpInv, PanicAt
  <2>4. NewFile(vault["seed"])' = NewFile(vault["seed"])
    BY DEF NewFile
  <2>5. QED
    BY <2>1, <2>2, <2>3, <2>4 DEF StateInv, StateTypes, DatabaseOpens,
       AccountIsUsable, ErasedMeansErased, SyncInv
<1>5. QED
  BY <1>1, <1>2, <1>3, <1>4

\* The panic logout never finds the database initialized; a logout may, when
\* another one was faster.
LEMMA LookStep ==
    ASSUME IInv, NEW o \in Slot, Look(o)
    PROVE  IInv'
<1>1. /\ StateInv
      /\ op \in [Slot -> Operation \cup {None}]
      /\ op[o] \in Operation /\ op[o] # None /\ OpInv(op[o])
  BY Parts DEF Look, At, OpInv
<1>2. StateInv'
  <2>1. CASE open
    BY <1>1, <2>1, FinishKeeps DEF Look, At, OpInv, PanicAt, Opening
  <2>2. CASE ~open
    BY <1>1, <2>2 DEF Look, StateInv, StateTypes, DatabaseOpens, AccountIsUsable,
       ErasedMeansErased, SyncInv
  <2>3. QED
    BY <2>1, <2>2
<1>3. ASSUME NEW y \in Operation, OpInv(y), Beside(y, op[o])
      PROVE  OpInv(y)'
  BY <1>1, <1>3 DEF Look, Finish, At, Beside, OpInv, Placed, SeedAt, StoredAt,
     PanicAt, ScreenOf, Opening
<1>4. CASE open
  <2>1. op' = [op EXCEPT ![o] = None]
    BY <1>4 DEF Look, Finish, Done
  <2>2. QED
    BY <1>1, <1>2, <1>3, <2>1, AfterDone DEF Look
<1>5. CASE ~open
  <2>1. Move(o, "derive", 1, op[o].key) /\ UNCHANGED <<user, screen>>
    BY <1>5 DEF Look, GoTo
  <2>2. PICK x \in Operation : /\ Moved(x, op[o], "derive", 1, op[o].key)
                              /\ op' = [op EXCEPT ![o] = x]
    <3>1. "derive" \in Position /\ 1 \in 1 .. 4 /\ op[o].key \in Seed \cup {None}
      BY <1>1 DEF Operation, Position
    <3>2. QED
      BY <1>1, <2>1, <3>1, MoveMoves
  <2>3. OpInv(x)'
    BY <1>1, <1>5, <2>1, <2>2 DEF Look, At, Moved, OpInv, Placed, SeedAt,
       StoredAt, PanicAt, ScreenOf, Adopting, Erasing, Opening
  <2>4. QED
    BY <1>1, <1>2, <1>3, <2>2, <2>3, AfterMove DEF Look, Moved
<1>6. QED
  BY <1>4, <1>5


\* The pointer is written when row, pair and phrase are there.
LEMMA SaveCurrentStep ==
    ASSUME IInv, NEW o \in Slot, SaveCurrent(o)
    PROVE  IInv'
<1>1. /\ StateInv
      /\ op \in [Slot -> Operation \cup {None}]
      /\ op[o] \in Operation /\ op[o] # None /\ OpInv(op[o])
  BY Parts DEF SaveCurrent, At, OpInv
<1>2. StateInv'
  BY <1>1, LifecycleAssumption DEF SaveCurrent, Adopted, At, OpInv, Placed,
     StoredAt, ScreenOf, Adopting, Making, StateInv, StateTypes, DatabaseOpens,
     AccountIsUsable, ErasedMeansErased, SyncInv, Account, File, Usable
<1>3. ASSUME NEW y \in Operation, OpInv(y), Beside(y, op[o])
      PROVE  OpInv(y)'
  BY <1>1, <1>3 DEF SaveCurrent, Adopted, At, Beside, OpInv, Placed, SeedAt,
     StoredAt, PanicAt, ScreenOf, Adopting, Erasing, Opening, Making, Usable,
     StateInv, StateTypes, File
<1>4. CASE op[o].kind = "import"
  <2>1. Move(o, "records", 1, op[o].key) /\ UNCHANGED <<user, screen>>
    BY <1>4 DEF SaveCurrent, GoTo
  <2>2. PICK x \in Operation : /\ Moved(x, op[o], "records", 1, op[o].key)
                              /\ op' = [op EXCEPT ![o] = x]
    <3>1. op[o].key \in Seed \cup {None} /\ "records" \in Position /\ 1 \in 1 .. 4
      BY <1>1 DEF Operation, Position
    <3>2. QED
      BY <1>1, <2>1, <3>1, MoveMoves
  <2>3. OpInv(x)'
    BY <1>1, <1>4, <2>1, <2>2 DEF SaveCurrent, At, Moved, OpInv, Placed,
       SeedAt, StoredAt, PanicAt, ScreenOf, Adopting, Erasing, Opening, Making
  <2>4. QED
    BY <1>1, <1>2, <1>3, <2>2, <2>3, AfterMove DEF SaveCurrent, Moved
<1>5. CASE op[o].kind # "import"
  <2>1. op' = [op EXCEPT ![o] = None]
    BY <1>5 DEF SaveCurrent, Adopted, Done
  <2>2. QED
    BY <1>1, <1>2, <1>3, <2>1, AfterDone DEF SaveCurrent
<1>6. QED
  BY <1>4, <1>5


\* Only a connect reaches saveAuth, and it carries an account.
LEMMA SaveAuthStep ==
    ASSUME IInv, NEW o \in Slot, SaveAuth(o)
    PROVE  IInv'
<1>1. /\ StateInv
      /\ op \in [Slot -> Operation \cup {None}]
      /\ op[o] \in Operation /\ op[o] # None /\ OpInv(op[o])
  BY Parts DEF SaveAuth, At, OpInv
<1>2. op' = [op EXCEPT ![o] = None]
  BY DEF SaveAuth, Done
<1>3. StateInv'
  BY <1>1, LifecycleAssumption DEF SaveAuth, At, OpInv, Placed, SeedAt,
     StoredAt, PanicAt, ScreenOf, Adopting, Erasing, Opening, StateInv,
     StateTypes, DatabaseOpens, AccountIsUsable, ErasedMeansErased, SyncInv,
     Account, Secrets, Operation
<1>4. ASSUME NEW y \in Operation, OpInv(y), Beside(y, op[o])
      PROVE  OpInv(y)'
  BY <1>1, <1>4, LifecycleAssumption DEF SaveAuth, At, Beside, OpInv, Placed,
     SeedAt, StoredAt, PanicAt, ScreenOf, Adopting, Erasing, Opening, Account,
     Secrets
<1>5. QED
  BY <1>1, <1>2, <1>3, <1>4, AfterDone DEF SaveAuth

\* Records are added to the file of the account.
LEMMA ImportRecordsStep ==
    ASSUME IInv, NEW o \in Slot, ImportRecords(o)
    PROVE  IInv'
<1>1. /\ StateInv
      /\ op \in [Slot -> Operation \cup {None}]
      /\ op[o] \in Operation /\ op[o] # None /\ OpInv(op[o])
  BY Parts DEF ImportRecords, At, OpInv
<1>2. op' = [op EXCEPT ![o] = None]
  BY DEF ImportRecords, Adopted, Done
<1>3. StateInv'
  BY <1>1, LifecycleAssumption DEF ImportRecords, At, Adopted, OpInv, Placed,
     SeedAt, StoredAt, PanicAt, ScreenOf, Adopting, Erasing, Opening, StateInv,
     StateTypes, DatabaseOpens, AccountIsUsable, ErasedMeansErased, SyncInv,
     Account, Secrets, File, Usable, Operation
<1>4. ASSUME NEW y \in Operation, OpInv(y), Beside(y, op[o])
      PROVE  OpInv(y)'
  BY <1>1, <1>4, LifecycleAssumption DEF ImportRecords, At, Beside, Adopted,
     OpInv, Placed, SeedAt, StoredAt, PanicAt, ScreenOf, Adopting, Erasing,
     Opening, Account, Secrets, File, Usable, StateInv, StateTypes
<1>5. QED
  BY <1>1, <1>2, <1>3, <1>4, AfterDone DEF ImportRecords

\* A finished panic logout has a new database to show for it.
LEMMA LoadStep ==
    ASSUME IInv, NEW o \in Slot, Load(o)
    PROVE  IInv'
<1>1. /\ StateInv
      /\ op \in [Slot -> Operation \cup {None}]
      /\ op[o] \in Operation /\ op[o] # None /\ OpInv(op[o])
  BY Parts DEF Load, At, OpInv
<1>2. op' = [op EXCEPT ![o] = None]
  BY DEF Load, Finish, Done
<1>3. StateInv'
  BY <1>1, FinishKeeps DEF Load, At, Opening
<1>4. ASSUME NEW y \in Operation, OpInv(y), Beside(y, op[o])
      PROVE  OpInv(y)'
  BY <1>1, <1>4, LifecycleAssumption DEF Load, At, Beside, Finish, OpInv,
     Placed, SeedAt, StoredAt, PanicAt, ScreenOf, Adopting, Erasing, Opening,
     Account, Secrets
<1>5. QED
  BY <1>1, <1>2, <1>3, <1>4, AfterDone DEF Load

\* An operation that ends early leaves what it can rely on to nobody.
LEMMA FailStep ==
    ASSUME IInv, NEW o \in Slot, Fail(o)
    PROVE  IInv'
<1>1. /\ StateInv
      /\ op \in [Slot -> Operation \cup {None}]
      /\ op[o] \in Operation /\ op[o] # None /\ OpInv(op[o])
  BY Parts DEF Fail, At, OpInv
<1>2. op' = [op EXCEPT ![o] = None]
  BY DEF Fail, Done
<1>3. StateInv'
  BY <1>1, LifecycleAssumption DEF Fail, At, OpInv, Placed, SeedAt, StoredAt,
     PanicAt, ScreenOf, Adopting, Erasing, Opening, StateInv, StateTypes,
     DatabaseOpens, AccountIsUsable, ErasedMeansErased, SyncInv, Account,
     Secrets
<1>4. ASSUME NEW y \in Operation, OpInv(y), Beside(y, op[o])
      PROVE  OpInv(y)'
  BY <1>1, <1>4, LifecycleAssumption DEF Fail, At, Beside, OpInv, Placed,
     SeedAt, StoredAt, PanicAt, ScreenOf, Adopting, Erasing, Opening, Account,
     Secrets
<1>5. QED
  BY <1>1, <1>2, <1>3, <1>4, AfterDone DEF Fail

\* Start-up relies on nothing.
LEMMA LaunchStep ==
    ASSUME IInv, NEW o \in Slot, Launch(o)
    PROVE  IInv'
<1>1. StateInv /\ op \in [Slot -> Operation \cup {None}]
  BY Parts
<1>2. PICK x \in Operation : Started(x, "start", None, "look") /\ op' = [op EXCEPT ![o] = x]
  BY <1>1, BeginStarts DEF Launch, StateInv, StateTypes, Position, Kind
<1>3. StateInv'
  BY <1>1 DEF Launch, StateInv, StateTypes, DatabaseOpens, AccountIsUsable,
     ErasedMeansErased, SyncInv
<1>4. OpInv(x)'
  BY <1>1, <1>2, LifecycleAssumption DEF Launch, Started, Making, OpInv, Placed,
     SeedAt, StoredAt, PanicAt, ScreenOf, Adopting, Erasing, Opening, StateInv,
     StateTypes, DatabaseOpens, AccountIsUsable, ErasedMeansErased, SyncInv,
     Account, Secrets
<1>5. ASSUME NEW p \in Slot, NEW y \in Operation, y = op[p], y # None, OpInv(y)
      PROVE  OpInv(y)' /\ Beside(x, y)'
  BY <1>1, <1>2, <1>5 DEF Launch, Started, Beside, Runs, Making, Operation,
     OpInv, Placed, SeedAt, StoredAt, PanicAt, ScreenOf, Adopting, Erasing,
     Opening
<1>6. QED
  BY <1>1, <1>2, <1>3, <1>4, <1>5, AfterBegin DEF Launch, Begin

\* Nothing is stored yet, and no logout runs that would erase it.
LEMMA CreateAccountStep ==
    ASSUME IInv, NEW o \in Slot, NEW i \in Identity, CreateAccount(o, i)
    PROVE  IInv'
<1>1. StateInv /\ op \in [Slot -> Operation \cup {None}]
  BY Parts
<1>2. PICK x \in Operation : Started(x, "create", i, "keep") /\ op' = [op EXCEPT ![o] = x]
  BY <1>1, BeginStarts DEF CreateAccount, StateInv, StateTypes, Position, Kind
<1>3. StateInv'
  BY <1>1 DEF CreateAccount, StateInv, StateTypes, DatabaseOpens,
     AccountIsUsable, ErasedMeansErased, SyncInv
<1>4. OpInv(x)'
  BY <1>1, <1>2, LifecycleAssumption DEF CreateAccount, Started, Making, OpInv,
     Placed, SeedAt, StoredAt, PanicAt, ScreenOf, Adopting, Erasing, Opening,
     StateInv, StateTypes, DatabaseOpens, AccountIsUsable, ErasedMeansErased,
     SyncInv, Account, Secrets
<1>5. ASSUME NEW p \in Slot, NEW y \in Operation, y = op[p], y # None, OpInv(y)
      PROVE  OpInv(y)' /\ Beside(x, y)'
  BY <1>1, <1>2, <1>5 DEF CreateAccount, Started, Beside, Runs, Making,
     Operation, OpInv, Placed, SeedAt, StoredAt, PanicAt, ScreenOf, Adopting,
     Erasing, Opening
<1>6. QED
  BY <1>1, <1>2, <1>3, <1>4, <1>5, AfterBegin DEF CreateAccount, Begin

\* Nothing is stored yet, and no logout runs that would erase it.
LEMMA RestoreAccountStep ==
    ASSUME IInv, NEW o \in Slot,
           NEW i \in Identity, NEW kind \in {"restore", "import"}, RestoreAccount(o, i, kind)
    PROVE  IInv'
<1>1. StateInv /\ op \in [Slot -> Operation \cup {None}]
  BY Parts
<1>2. PICK x \in Operation : Started(x, kind, i, "keep") /\ op' = [op EXCEPT ![o] = x]
  BY <1>1, BeginStarts DEF RestoreAccount, StateInv, StateTypes, Position, Kind
<1>3. StateInv'
  BY <1>1 DEF RestoreAccount, StateInv, StateTypes, DatabaseOpens,
     AccountIsUsable, ErasedMeansErased, SyncInv
<1>4. OpInv(x)'
  BY <1>1, <1>2, LifecycleAssumption DEF RestoreAccount, Started, Making, OpInv,
     Placed, SeedAt, StoredAt, PanicAt, ScreenOf, Adopting, Erasing, Opening,
     StateInv, StateTypes, DatabaseOpens, AccountIsUsable, ErasedMeansErased,
     SyncInv, Account, Secrets
<1>5. ASSUME NEW p \in Slot, NEW y \in Operation, y = op[p], y # None, OpInv(y)
      PROVE  OpInv(y)' /\ Beside(x, y)'
  BY <1>1, <1>2, <1>5 DEF RestoreAccount, Started, Beside, Runs, Making,
     Operation, OpInv, Placed, SeedAt, StoredAt, PanicAt, ScreenOf, Adopting,
     Erasing, Opening
<1>6. QED
  BY <1>1, <1>2, <1>3, <1>4, <1>5, AfterBegin DEF RestoreAccount, Begin

\* The account that connects is the one in memory.
LEMMA ConnectStep ==
    ASSUME IInv, NEW o \in Slot, Connect(o)
    PROVE  IInv'
<1>1. StateInv /\ op \in [Slot -> Operation \cup {None}]
  BY Parts
<1>2. PICK x \in Operation : Started(x, "connect", user, "request") /\ op' = [op EXCEPT ![o] = x]
  BY <1>1, BeginStarts DEF Connect, StateInv, StateTypes, Position, Kind
<1>3. StateInv'
  BY <1>1 DEF Connect, StateInv, StateTypes, DatabaseOpens, AccountIsUsable,
     ErasedMeansErased, SyncInv
<1>4. OpInv(x)'
  BY <1>1, <1>2, LifecycleAssumption DEF Connect, Started, Making, OpInv,
     Placed, SeedAt, StoredAt, PanicAt, ScreenOf, Adopting, Erasing, Opening,
     StateInv, StateTypes, DatabaseOpens, AccountIsUsable, ErasedMeansErased,
     SyncInv, Account, Secrets
<1>5. ASSUME NEW p \in Slot, NEW y \in Operation, y = op[p], y # None, OpInv(y)
      PROVE  OpInv(y)' /\ Beside(x, y)'
  BY <1>1, <1>2, <1>5 DEF Connect, Started, Beside, Runs, Making, Operation,
     OpInv, Placed, SeedAt, StoredAt, PanicAt, ScreenOf, Adopting, Erasing,
     Opening
<1>6. QED
  BY <1>1, <1>2, <1>3, <1>4, <1>5, AfterBegin DEF Connect, Begin

\* What is under way is overtaken.
LEMMA LogoutStep ==
    ASSUME IInv, NEW o \in Slot, Logout(o)
    PROVE  IInv'
<1>1. StateInv /\ op \in [Slot -> Operation \cup {None}]
  BY Parts
<1>2. PICK x \in Operation : Started(x, "logout", None, "request") /\ op' = [op EXCEPT ![o] = x]
  BY <1>1, BeginStarts DEF Logout, StateInv, StateTypes, Position, Kind
<1>3. StateInv'
  BY <1>1 DEF Logout, StateInv, StateTypes, DatabaseOpens, AccountIsUsable,
     ErasedMeansErased, SyncInv
<1>4. OpInv(x)'
  BY <1>1, <1>2, LifecycleAssumption DEF Logout, Started, Making, OpInv, Placed,
     SeedAt, StoredAt, PanicAt, ScreenOf, Adopting, Erasing, Opening, StateInv,
     StateTypes, DatabaseOpens, AccountIsUsable, ErasedMeansErased, SyncInv,
     Account, Secrets
<1>5. ASSUME NEW p \in Slot, NEW y \in Operation, y = op[p], y # None, OpInv(y)
      PROVE  OpInv(y)' /\ Beside(x, y)'
  BY <1>1, <1>2, <1>5 DEF Logout, Started, Beside, Runs, Making, Operation,
     OpInv, Placed, SeedAt, StoredAt, PanicAt, ScreenOf, Adopting, Erasing,
     Opening
<1>6. QED
  BY <1>1, <1>2, <1>3, <1>4, <1>5, AfterBegin DEF Logout, Begin

\* At the gate no sync is under way.
LEMMA PanicPinStep ==
    ASSUME IInv, NEW o \in Slot, PanicPin(o)
    PROVE  IInv'
<1>1. StateInv /\ op \in [Slot -> Operation \cup {None}]
  BY Parts
<1>2. PICK x \in Operation : Started(x, "panic", None, "request") /\ op' = [op EXCEPT ![o] = x]
  BY <1>1, BeginStarts DEF PanicPin, StateInv, StateTypes, Position, Kind
<1>3. StateInv'
  BY <1>1 DEF PanicPin, StateInv, StateTypes, DatabaseOpens, AccountIsUsable,
     ErasedMeansErased, SyncInv
<1>4. OpInv(x)'
  BY <1>1, <1>2, LifecycleAssumption DEF PanicPin, Started, Making, OpInv,
     Placed, SeedAt, StoredAt, PanicAt, ScreenOf, Adopting, Erasing, Opening,
     StateInv, StateTypes, DatabaseOpens, AccountIsUsable, ErasedMeansErased,
     SyncInv, Account, Secrets
<1>5. ASSUME NEW p \in Slot, NEW y \in Operation, y = op[p], y # None, OpInv(y)
      PROVE  OpInv(y)' /\ Beside(x, y)'
  BY <1>1, <1>2, <1>5 DEF PanicPin, Started, Beside, Runs, Making, Operation,
     OpInv, Placed, SeedAt, StoredAt, PanicAt, ScreenOf, Adopting, Erasing,
     Opening
<1>6. QED
  BY <1>1, <1>2, <1>3, <1>4, <1>5, AfterBegin DEF PanicPin, Begin

-----------------------------------------------------------------------------
\* Steps outside the operations

LEMMA OperationsKept ==
    ASSUME IInv, UNCHANGED <<op, overtaken>>, StateInv',
           \A o \in Slot : OpInv(op[o]) => OpInv(op[o])'
    PROVE  IInv'
<1>1. (\A o \in Slot : OpInv(op[o]))'
  BY Parts
<1>2. Apart'
  BY Parts DEF Apart, Beside
<1>3. (op \in [Slot -> Operation \cup {None}])'
  BY Parts
<1>4. QED
  BY <1>1, <1>2, <1>3 DEF IInv, StateInv, StateTypes, OpInv, TypeOK

\* Operations of the onboarding screen may go on behind the home screen.
LEMMA ConfirmPhraseStep ==
    ASSUME IInv, ConfirmPhrase
    PROVE  IInv'
<1>1. /\ StateInv /\ \A o \in Slot : OpInv(op[o])
      /\ op \in [Slot -> Operation \cup {None}]
  BY Parts
<1>2. StateInv'
  BY <1>1, LifecycleAssumption DEF ConfirmPhrase, StateInv, StateTypes,
     DatabaseOpens, AccountIsUsable, ErasedMeansErased, SyncInv, Account
<1>3. ASSUME NEW o \in Slot, OpInv(op[o])
      PROVE  OpInv(op[o])'
  BY <1>1, <1>3 DEF ConfirmPhrase, OpInv, Placed, SeedAt, StoredAt, PanicAt,
     ScreenOf, Adopting, Erasing, Opening, Operation, Runs, StateInv,
     StateTypes, DatabaseOpens, AccountIsUsable, ErasedMeansErased, SyncInv,
     Account
<1>4. QED
  BY <1>2, <1>3, OperationsKept DEF ConfirmPhrase

\* No panic logout is left behind at the gate.
LEMMA UnlockStep ==
    ASSUME IInv, Unlock
    PROVE  IInv'
<1>1. /\ StateInv /\ \A o \in Slot : OpInv(op[o])
      /\ op \in [Slot -> Operation \cup {None}]
  BY Parts
<1>2. StateInv'
  BY <1>1, LifecycleAssumption DEF Unlock, StateInv, StateTypes,
     DatabaseOpens, AccountIsUsable, ErasedMeansErased, SyncInv, Account
<1>3. ASSUME NEW o \in Slot, OpInv(op[o])
      PROVE  OpInv(op[o])'
  BY <1>1, <1>3 DEF Unlock, OpInv, Placed, SeedAt, StoredAt, PanicAt,
     ScreenOf, Adopting, Erasing, Opening, Operation, Runs, StateInv,
     StateTypes, DatabaseOpens, AccountIsUsable, ErasedMeansErased, SyncInv,
     Account
<1>4. QED
  BY <1>2, <1>3, OperationsKept DEF Unlock

\* Nothing runs behind the dialog.
LEMMA CloseErasedStep ==
    ASSUME IInv, CloseErased
    PROVE  IInv'
<1>1. /\ StateInv /\ \A o \in Slot : OpInv(op[o])
      /\ op \in [Slot -> Operation \cup {None}]
  BY Parts
<1>2. StateInv'
  BY <1>1, LifecycleAssumption DEF CloseErased, StateInv, StateTypes,
     DatabaseOpens, AccountIsUsable, ErasedMeansErased, SyncInv, Account
<1>3. ASSUME NEW o \in Slot, OpInv(op[o])
      PROVE  OpInv(op[o])'
  BY <1>1, <1>3 DEF CloseErased, OpInv, Placed, SeedAt, StoredAt, PanicAt,
     ScreenOf, Adopting, Erasing, Opening, Operation, Runs, StateInv,
     StateTypes, DatabaseOpens, AccountIsUsable, ErasedMeansErased, SyncInv,
     Account
<1>4. QED
  BY <1>2, <1>3, OperationsKept DEF CloseErased

\* A sync starts at home.
LEMMA StartSyncStep ==
    ASSUME IInv, StartSync
    PROVE  IInv'
<1>1. /\ StateInv /\ \A o \in Slot : OpInv(op[o])
      /\ op \in [Slot -> Operation \cup {None}]
  BY Parts
<1>2. StateInv'
  BY <1>1, LifecycleAssumption DEF StartSync, Usable, StateInv, StateTypes,
     DatabaseOpens, AccountIsUsable, ErasedMeansErased, SyncInv, Account
<1>3. ASSUME NEW o \in Slot, OpInv(op[o])
      PROVE  OpInv(op[o])'
  BY <1>1, <1>3 DEF StartSync, OpInv, Placed, SeedAt, StoredAt, PanicAt,
     ScreenOf, Adopting, Erasing, Opening, Operation, Runs, StateInv,
     StateTypes, DatabaseOpens, AccountIsUsable, ErasedMeansErased, SyncInv,
     Account
<1>4. QED
  BY <1>2, <1>3, OperationsKept DEF StartSync

\* A sync that is late writes to a database, never to the key store.
LEMMA FinishSyncStep ==
    ASSUME IInv, FinishSync
    PROVE  IInv'
<1>1. /\ StateInv /\ \A o \in Slot : OpInv(op[o])
      /\ op \in [Slot -> Operation \cup {None}]
  BY Parts
<1>2. StateInv'
  BY <1>1, LifecycleAssumption DEF FinishSync, Usable, StateInv, StateTypes,
     DatabaseOpens, AccountIsUsable, ErasedMeansErased, SyncInv, Account,
     File, NewFile
<1>a. /\ file = None => file' = None
      /\ file # None => file'.rows = file.rows
      /\ ~open => file' = file
  BY <1>1 DEF FinishSync, Usable, StateInv, StateTypes, File
<1>3. ASSUME NEW o \in Slot, OpInv(op[o])
      PROVE  OpInv(op[o])'
  BY <1>1, <1>a, <1>3 DEF FinishSync, Usable, OpInv, Placed, SeedAt, StoredAt,
     PanicAt, ScreenOf, Opening, StateInv, SyncInv
<1>4. QED
  BY <1>2, <1>3, OperationsKept DEF FinishSync

\* A crash ends everything but the two stores.
LEMMA CrashStep ==
    ASSUME IInv, Crash
    PROVE  IInv'
<1>1. StateInv
  BY Parts
<1>2. StateInv'
  BY <1>1 DEF Crash, StateInv, StateTypes, DatabaseOpens, AccountIsUsable,
     ErasedMeansErased, SyncInv, Account
<1>3. op' = [o \in Slot |-> None]
  BY DEF Crash
<1>4. QED
  BY <1>2, <1>3 DEF IInv, StateInv, StateTypes, TypeOK, Apart

-----------------------------------------------------------------------------
\* Theorems

LEMMA InitIInv == Init => IInv
  BY LifecycleAssumption DEF Init, IInv, TypeOK, DatabaseOpens,
     AccountIsUsable, ErasedMeansErased, SyncInv, Apart, Account

LEMMA IInvInductive == IInv /\ [Next]_vars => IInv'
<1> SUFFICES ASSUME IInv, [Next]_vars PROVE IInv'
  OBVIOUS
<1>1. ASSUME NEW o \in Slot, UserStep(o) PROVE IInv'
  <2>1. CASE Launch(o) BY <2>1, LaunchStep
  <2>2. CASE Connect(o) BY <2>2, ConnectStep
  <2>3. CASE Logout(o) BY <2>3, LogoutStep
  <2>4. CASE PanicPin(o) BY <2>4, PanicPinStep
  <2>5. ASSUME NEW i \in Identity, CreateAccount(o, i) PROVE IInv'
    BY <2>5, CreateAccountStep
  <2>6. ASSUME NEW i \in Identity, NEW kind \in {"restore", "import"},
               RestoreAccount(o, i, kind)
        PROVE  IInv'
    BY <2>6, RestoreAccountStep
  <2>7. QED
    BY <1>1, <2>1, <2>2, <2>3, <2>4, <2>5, <2>6 DEF UserStep
<1>2. ASSUME NEW o \in Slot, OperationStep(o) PROVE IInv'
  <2>1. CASE Keep(o) BY <2>1, KeepStep
  <2>2. CASE SaveRow(o) BY <2>2, SaveRowStep
  <2>3. CASE SaveCurrent(o) BY <2>3, SaveCurrentStep
  <2>4. CASE ImportRecords(o) BY <2>4, ImportRecordsStep
  <2>5. CASE ForgetToken(o) BY <2>5, ForgetTokenStep
  <2>6. CASE Claim(o) BY <2>6, ClaimStep
  <2>7. CASE SaveAuth(o) BY <2>7, SaveAuthStep
  <2>8. CASE Close(o) BY <2>8, CloseStep
  <2>9. CASE Remove(o) BY <2>9, RemoveStep
  <2>10. CASE Erase(o) BY <2>10, EraseStep
  <2>11. CASE Look(o) BY <2>11, LookStep
  <2>12. CASE Derive(o) BY <2>12, DeriveStep
  <2>13. CASE Draw(o) BY <2>13, DrawStep
  <2>14. CASE Open(o) BY <2>14, OpenStep
  <2>15. CASE Load(o) BY <2>15, LoadStep
  <2>16. CASE Fail(o) BY <2>16, FailStep
  <2>17. QED
    BY <1>2, <2>1, <2>2, <2>3, <2>4, <2>5, <2>6, <2>7, <2>8, <2>9, <2>10,
       <2>11, <2>12, <2>13, <2>14, <2>15, <2>16 DEF OperationStep
<1>3. CASE ConfirmPhrase BY <1>3, ConfirmPhraseStep
<1>4. CASE Unlock BY <1>4, UnlockStep
<1>5. CASE CloseErased BY <1>5, CloseErasedStep
<1>6. CASE StartSync BY <1>6, StartSyncStep
<1>7. CASE FinishSync BY <1>7, FinishSyncStep
<1>8. CASE Crash BY <1>8, CrashStep
<1>9. CASE UNCHANGED vars
  <2>1. StateInv /\ (\A o \in Slot : OpInv(op[o])) /\ StateInv'
    BY <1>9, Parts DEF vars, StateInv, StateTypes, DatabaseOpens,
       AccountIsUsable, ErasedMeansErased, SyncInv
  <2>2. \A o \in Slot : OpInv(op[o]) => OpInv(op[o])'
    BY <1>9 DEF vars, OpInv, Placed, SeedAt, StoredAt, PanicAt, ScreenOf
  <2>3. QED
    BY <1>9, <2>1, <2>2, OperationsKept DEF vars
<1>10. QED
  BY <1>1, <1>2, <1>3, <1>4, <1>5, <1>6, <1>7, <1>8, <1>9 DEF Next

\* Stores, file, screens and operations stay well formed.
THEOREM TypeCorrect == Spec => []TypeOK
<1>1. IInv => TypeOK
  BY DEF IInv
<1>2. IInv /\ [Next]_vars => IInv'
  BY IInvInductive
<1>3. QED
  BY <1>1, <1>2, InitIInv, PTL DEF Spec

\* LocalDatabase.init and AuthService.logout: whatever fails or dies in
\* between, the stored seed is the one an existing file was created under, as
\* long as no logout was started in the middle of another.
THEOREM DatabaseAlwaysOpens == Spec => []DatabaseOpens
<1>1. IInv => DatabaseOpens
  BY DEF IInv
<1>2. IInv /\ [Next]_vars => IInv'
  BY IInvInductive
<1>3. QED
  BY <1>1, <1>2, InitIInv, PTL DEF Spec

\* createAccount, restoreAccount and restoreFromBackup save the profile last:
\* a profile that is found has a pair and a phrase, after every crash, also
\* when two of them overlap; a logout must not have been started in between.
THEOREM ProfileHasSecrets == Spec => []AccountIsUsable
<1>1. IInv => AccountIsUsable
  BY DEF IInv
<1>2. IInv /\ [Next]_vars => IInv'
  BY IInvInductive
<1>3. QED
  BY <1>1, <1>2, InitIInv, PTL DEF Spec

\* _validatePin: when the panic logout says that data and keys are removed,
\* they are, and nothing under way brings them back, whatever ran into each
\* other before.
THEOREM ErasedIsTrue == Spec => []ErasedMeansErased
<1>1. IInv => ErasedMeansErased
  BY DEF IInv
<1>2. IInv /\ [Next]_vars => IInv'
  BY IInvInductive
<1>3. QED
  BY <1>1, <1>2, InitIInv, PTL DEF Spec

=============================================================================
