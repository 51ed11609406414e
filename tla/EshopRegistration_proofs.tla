------------------------ MODULE EshopRegistration_proofs ------------------------
(***************************************************************************)
(* Proofs about EshopRegistration, for any consoles, accounts, users,      *)
(* titles and requests: what is kept apart suffices for one account and    *)
(* one web user per console, for deleted accounts to stay deleted, and for *)
(* one entry per title on a wishlist.                                      *)
(***************************************************************************)
EXTENDS EshopRegistration, TLAPS

-----------------------------------------------------------------------------
(* What all requests keep: their types, and what each of them is about *)

TableType ==
  /\ live \subseteq Account /\ gone \subseteq Account
  /\ of \in [Account -> Console]
  /\ user \in [Name -> live \cup {NoUser, Unlinked}]
  /\ wish \in [Entry -> (live \X Title) \cup {NoWish}]

RequestType ==
  /\ pc \in [Thread -> Statement]
  /\ op \in [Thread -> Handler \cup {"none"}]
  /\ who \in [Thread -> Console]
  /\ acc \in [Thread -> Account \cup {NoAccount}]
  /\ mem \in [Thread -> SUBSET (Name \cup Title \cup Entry)]
  /\ apart \in Settings

LEMMA TypeParts == TypeOK <=> TableType /\ RequestType
BY DEF TypeOK, TableType, RequestType

\* The statements of each handler.
Does(o, step) ==
  \/ step = "idle"
  \/ o = "status" /\ step = "creating"
  \/ o = "unregister" /\ step \in {"collecting", "deleting"}
  \/ o = "save" /\ step = "saving"
  \/ o = "put" /\ step \in {"looking", "wishing", "resaving"}
  \/ o = "add" /\ step \in {"looking", "wishing"}
  \/ o = "remove" /\ step \in {"looking", "unwishing"}
  \/ o = "signup" /\ step \in {"keying", "checking", "naming", "linking"}

\* A request is about an account of its console, which may be gone.
Owns(t) ==
  pc[t] \notin {"idle", "creating"} => acc[t] \in live \cup gone /\ of[acc[t]] = who[t]

\* No two requests of a console in progress are kept apart.
KeptApart ==
  \A s, t \in Thread :
    s # t /\ pc[s] # "idle" /\ pc[t] # "idle" /\ who[s] = who[t] => {op[s], op[t]} \notin apart

RequestInv ==
  /\ RequestType /\ KeptApart
  /\ \A t \in Thread : Does(op[t], pc[t])

Base == TableType /\ RequestInv /\ \A t \in Thread : Owns(t)

\* Request t goes on or ends, and leaves the others alone, but for the users that
\* one of them found.
Continues(t) ==
  /\ pc[t] # "idle" /\ apart' = apart
  /\ \A s \in Thread : s # t => /\ pc'[s] = pc[s] /\ op'[s] = op[s] /\ who'[s] = who[s]
                                /\ acc'[s] = acc[s]
                                /\ pc[s] # "deleting" => mem'[s] = mem[s]
  /\ \/ pc'[t] = "idle"
     \/ op'[t] = op[t] /\ who'[t] = who[t] /\ acc'[t] = acc[t] /\ pc[t] # "creating"

LEMMA ContinueKeeps ==
  ASSUME RequestInv, NEW t \in Thread, RequestType', Continues(t), Does(op'[t], pc'[t])
  PROVE  RequestInv'
<1>1. KeptApart'
  <2>1. SUFFICES ASSUME NEW r \in Thread, NEW s \in Thread, r # s, pc'[r] # "idle",
                        pc'[s] # "idle", who'[r] = who'[s]
                 PROVE  {op'[r], op'[s]} \notin apart'
    BY DEF KeptApart
  <2>2. \A q \in Thread : pc'[q] # "idle" => pc[q] # "idle" /\ op'[q] = op[q] /\ who'[q] = who[q]
    BY DEF Continues
  <2>3. {op[r], op[s]} \notin apart
    BY <2>1, <2>2 DEF RequestInv, KeptApart
  <2>4. QED BY <2>1, <2>2, <2>3 DEF Continues
<1>2. \A s \in Thread : Does(op'[s], pc'[s])
  BY DEF RequestInv, Continues
<1>3. QED BY <1>1, <1>2 DEF RequestInv, Does

\* What it is about stays what it is.
LEMMA OwnsKept ==
  ASSUME \A s \in Thread : Owns(s), NEW t \in Thread, Continues(t), TableType,
         live \cup gone \subseteq live' \cup gone', of' = of
  PROVE  \A s \in Thread : Owns(s)'
BY DEF Owns, Continues

LEMMA EndFacts ==
  ASSUME RequestInv, NEW t \in Thread, pc[t] # "idle", End(t)
  PROVE  RequestInv' /\ Continues(t) /\ pc'[t] = "idle"
<1>1. "idle" \in Statement
  BY DEF Statement
<1>2. RequestType' /\ Continues(t) /\ pc'[t] = "idle"
  BY <1>1 DEF RequestInv, RequestType, End, Continues
<1>3. QED BY <1>2, ContinueKeeps DEF Does

LEMMA GotoFacts ==
  ASSUME RequestInv, NEW t \in Thread, NEW step \in Statement, pc[t] \notin {"idle", "creating"},
         Goto(t, step), Does(op[t], step)
  PROVE  RequestInv' /\ Continues(t) /\ pc'[t] = step /\ mem' = mem /\ acc' = acc /\ op' = op
<1>1. RequestType' /\ Continues(t) /\ pc'[t] = step /\ mem' = mem /\ acc' = acc /\ op' = op
  BY DEF RequestInv, RequestType, Goto, Continues
<1>2. Does(op'[t], pc'[t])
  BY <1>1
<1>3. QED BY <1>1, <1>2, ContinueKeeps

LEMMA HoldFacts ==
  ASSUME RequestInv, NEW t \in Thread, NEW step \in Statement, pc[t] \notin {"idle", "creating"},
         NEW m \in SUBSET (Name \cup Title \cup Entry), Hold(t, step, m), Does(op[t], step)
  PROVE  RequestInv' /\ Continues(t) /\ pc'[t] = step /\ mem'[t] = m /\ acc' = acc /\ op' = op
<1>1. RequestType' /\ Continues(t) /\ pc'[t] = step /\ mem'[t] = m /\ acc' = acc /\ op' = op
  BY DEF RequestInv, RequestType, Hold, Continues
<1>2. Does(op'[t], pc'[t])
  BY <1>1
<1>3. QED BY <1>1, <1>2, ContinueKeeps

\* A request begins.
Begins(t, o, c, a, m, step) ==
  /\ pc[t] = "idle" /\ apart' = apart
  /\ pc'[t] = step /\ op'[t] = o /\ who'[t] = c /\ acc'[t] = a /\ mem'[t] = m
  /\ \A s \in Thread : s # t => /\ pc'[s] = pc[s] /\ op'[s] = op[s] /\ who'[s] = who[s]
                                /\ acc'[s] = acc[s] /\ mem'[s] = mem[s]
  /\ UNCHANGED tables

LEMMA BeginFacts ==
  ASSUME Base, NEW t \in Thread, NEW o \in Handler, NEW c \in Console,
         NEW a \in Account \cup {NoAccount}, NEW m \in SUBSET (Name \cup Title \cup Entry),
         NEW step \in Statement, Does(o, step),
         step # "creating" => a \in live /\ of[a] = c, Begin(t, o, c, a, m, step)
  PROVE  Base' /\ Begins(t, o, c, a, m, step)
<1>1. RequestType' /\ Begins(t, o, c, a, m, step)
  BY DEF Base, RequestInv, RequestType, Begin, Begins, At
<1>2. TableType'
  BY <1>1 DEF Base, TableType, Begins, tables
<1>3. KeptApart'
  <2>1. \A s \in Thread : pc[s] # "idle" /\ who[s] = c => {o, op[s]} \notin apart
    BY DEF Begin, At
  <2>2. \A s \in Thread : {o, op[s]} = {op[s], o}
    OBVIOUS
  <2>3. \A r, s \in Thread :
          r # s /\ pc[r] # "idle" /\ pc[s] # "idle" /\ who[r] = who[s] => {op[r], op[s]} \notin apart
    BY DEF Base, RequestInv, KeptApart
  <2>4. SUFFICES ASSUME NEW r \in Thread, NEW s \in Thread, r # s, pc'[r] # "idle",
                        pc'[s] # "idle", who'[r] = who'[s]
                 PROVE  {op'[r], op'[s]} \notin apart'
    BY DEF KeptApart
  <2>5. CASE r = t
    BY <1>1, <2>1, <2>4, <2>5 DEF Begins
  <2>6. CASE s = t
    BY <1>1, <2>1, <2>2, <2>4, <2>6 DEF Begins
  <2>7. CASE r # t /\ s # t
    BY <1>1, <2>3, <2>4, <2>7 DEF Begins
  <2>8. QED BY <2>5, <2>6, <2>7
<1>4. \A s \in Thread : Does(op'[s], pc'[s])
  BY <1>1 DEF Base, RequestInv, Begins
<1>5. \A s \in Thread : Owns(s)'
  BY <1>1 DEF Base, Owns, Begins, tables
<1>6. QED BY <1>1, <1>2, <1>3, <1>4, <1>5 DEF Base, RequestInv, Does

-----------------------------------------------------------------------------
(* The invariant, by the tables that it is about *)

Apart(ps) == ps \subseteq apart

AccountInv ==
  /\ Apart({{"save", "unregister"}}) =>
       \A t \in Thread : pc[t] = "saving" => acc[t] \in live
  /\ OneAccount
  /\ Apart({{"status"}, {"save", "unregister"}}) =>
       \A t \in Thread : pc[t] = "creating" => Rows(who[t]) = {}

Signing == {"keying", "checking", "naming", "linking"}

UserInv ==
  /\ \A t \in Thread : pc[t] \in Signing => \E n \in Name : mem[t] = {n}
  /\ OneUser
  /\ Apart({{"signup"}}) =>
       \A t \in Thread : pc[t] \in {"naming", "linking"} => Users(acc[t]) = {}
  /\ UnlinkedForAReason
  /\ Apart({{"signup", "unregister"}}) =>
       \A t \in Thread : pc[t] \in Signing => acc[t] \in live

Wishing == {{"put"}, {"add"}, {"put", "add"}}

\* The title that a request is about, and the entry that it made.
Wishes(t) ==
  /\ pc[t] \in {"looking", "wishing"} => \E x \in Title : mem[t] = {x}
  /\ pc[t] = "resaving" => \E x \in Title, e \in Entry : mem[t] = {x, e}
  /\ pc[t] = "unwishing" => \E e \in Entry : mem[t] = {e}

\* There is no other entry for it.
Alone(t) ==
  pc[t] \in {"wishing", "resaving"} =>
    \A x \in mem[t] \cap Title : Entries(acc[t], x) \subseteq mem[t]

WishInv ==
  /\ \A t \in Thread : Wishes(t)
  /\ WishedOnce
  /\ Apart(Wishing) => \A t \in Thread : Alone(t)

Inv == Base /\ AccountInv /\ UserInv /\ WishInv

LEMMA InvInit == Init => Inv
<1> SUFFICES ASSUME Init PROVE Inv
  OBVIOUS
<1>1. TableType
  BY DEF Init, TableType
<1>2. RequestInv
  <2>1. RequestType
    BY DEF Init, RequestType, Statement
  <2>2. KeptApart
    BY DEF Init, KeptApart
  <2>3. \A t \in Thread : Does(op[t], pc[t])
    BY DEF Init, Does
  <2>4. QED BY <2>1, <2>2, <2>3 DEF RequestInv
<1>3. \A t \in Thread : Owns(t)
  BY DEF Init, Owns
<1>4. AccountInv
  BY DEF Init, AccountInv, OneAccount
<1>5. UserInv
  BY RegistrationAssumption DEF Init, UserInv, OneUser, UnlinkedForAReason, Signing
<1>6. WishInv
  BY DEF Init, WishInv, WishedOnce, Wishes, Alone
<1>7. QED BY <1>1, <1>2, <1>3, <1>4, <1>5, <1>6 DEF Inv, Base

\* Steps that do not disturb one of the parts.
LEMMA AccountQuiet ==
  ASSUME AccountInv, apart' = apart, UNCHANGED <<live, of, gone>>,
         \A s \in Thread : pc'[s] = "saving" => acc'[s] \in live \/ (pc[s] = "saving" /\ acc'[s] = acc[s]),
         \A s \in Thread : pc'[s] = "creating" => Rows(who'[s]) = {} \/ (pc[s] = "creating" /\ who'[s] = who[s])
  PROVE  AccountInv'
<1>1. \A c : Rows(c)' = Rows(c)
  BY DEF Rows
<1>2. OneAccount'
  BY DEF AccountInv, OneAccount
<1>3. Apart({{"save", "unregister"}})' =>
        \A t \in Thread : pc'[t] = "saving" => acc'[t] \in live'
  BY DEF AccountInv, Apart
<1>4. Apart({{"status"}, {"save", "unregister"}})' =>
        \A t \in Thread : pc'[t] = "creating" => Rows(who'[t]) = {}
  BY DEF AccountInv, Apart
<1>5. \A t \in Thread : Rows(who'[t]) = Rows(who[t])'
  BY DEF Rows
<1>6. QED BY <1>2, <1>3, <1>4, <1>5 DEF AccountInv

LEMMA UserQuiet ==
  ASSUME UserInv, apart' = apart, live \subseteq live', user' = user,
         \A s \in Thread : pc'[s] \in Signing =>
           /\ \E n \in Name : mem'[s] = {n}
           /\ (pc[s] \in Signing /\ acc'[s] = acc[s]) \/ acc'[s] \in live,
         \A s \in Thread : pc'[s] \in {"naming", "linking"} =>
           (pc[s] \in {"naming", "linking"} /\ acc'[s] = acc[s]) \/ Users(acc'[s]) = {},
         \A s \in Thread : pc[s] = "linking" /\ {"signup", "died"} \in apart =>
           pc'[s] = "linking" /\ mem'[s] = mem[s],
         \A n \in Name : user[n] \in live \cup {NoUser, Unlinked}, NoUser \notin live',
         Unlinked \notin live'
  PROVE  UserInv'
<1>1. \A t \in Thread : Users(acc[t])' = Users(acc'[t])
  BY DEF Users
<1>2. OneUser'
  BY RegistrationAssumption DEF UserInv, OneUser
<1>3. UnlinkedForAReason'
  BY DEF UserInv, UnlinkedForAReason, At
<1>4. Apart({{"signup"}})' =>
        \A t \in Thread : pc'[t] \in {"naming", "linking"} => Users(acc'[t]) = {}
  BY DEF UserInv, Apart
<1>5. Apart({{"signup", "unregister"}})' =>
        \A t \in Thread : pc'[t] \in Signing => acc'[t] \in live'
  BY DEF UserInv, Apart
<1>6. QED BY <1>1, <1>2, <1>3, <1>4, <1>5 DEF UserInv, Signing

LEMMA WishQuiet ==
  ASSUME WishInv, apart' = apart,
         \A s \in Thread : pc'[s] \in {"wishing", "resaving"} => acc'[s] \in Account,
         \A e \in Entry : wish'[e] = wish[e] \/ wish'[e] = NoWish,
         \A s \in Thread : Wishes(s)',
         \A s \in Thread : pc'[s] \in {"wishing", "resaving"} =>
           \/ pc[s] \in {"wishing", "resaving"} /\ acc'[s] = acc[s] /\ mem'[s] = mem[s]
           \/ \A x \in mem'[s] \cap Title : Entries(acc'[s], x) = {}
  PROVE  WishInv'
<1>1. \A a \in Account, x \in Title :
        {e \in Entry : wish'[e] = <<a, x>>} \subseteq Entries(a, x)
  <2>1. SUFFICES ASSUME NEW a \in Account, NEW x \in Title, NEW e \in Entry, wish'[e] = <<a, x>>
                 PROVE  wish[e] = <<a, x>>
    BY DEF Entries
  <2>2. <<a, x>> \in Account \X Title
    OBVIOUS
  <2>3. <<a, x>> # NoWish
    BY <2>2, RegistrationAssumption
  <2>4. QED BY <2>1, <2>3
<1>2. WishedOnce'
  BY DEF WishInv, WishedOnce
<1>3. Apart(Wishing)' => \A t \in Thread : Alone(t)'
  <2>1. SUFFICES ASSUME Apart(Wishing), NEW t \in Thread, pc'[t] \in {"wishing", "resaving"},
                        NEW x \in mem'[t] \cap Title
                 PROVE  {e \in Entry : wish'[e] = <<acc'[t], x>>} \subseteq mem'[t]
    BY DEF Alone, Apart, Entries
  <2>2. Entries(acc'[t], x) \subseteq mem'[t]
    BY <2>1 DEF WishInv, Alone
  <2>3. {e \in Entry : wish'[e] = <<acc'[t], x>>} \subseteq Entries(acc'[t], x)
    BY <1>1, <2>1
  <2>4. QED BY <2>2, <2>3
<1>4. QED BY <1>2, <1>3 DEF WishInv

-----------------------------------------------------------------------------
(* One lemma per statement: the beginnings *)

LEMMA BeginKeeps ==
  ASSUME Inv, NEW t \in Thread, NEW o \in Handler, NEW c \in Console,
         NEW a \in Account \cup {NoAccount}, NEW m \in SUBSET (Name \cup Title \cup Entry),
         NEW step \in {"creating", "collecting", "saving", "looking", "keying"}, Does(o, step),
         step = "creating" => Rows(c) = {}, step # "creating" => a \in live /\ of[a] = c,
         step = "looking" => \E x \in Title : m = {x},
         step = "keying" => \E n \in Name : m = {n}, Begin(t, o, c, a, m, step)
  PROVE  Inv'
<1>1. step \in Statement
  BY DEF Statement
<1>2. Base' /\ Begins(t, o, c, a, m, step)
  BY <1>1, BeginFacts DEF Inv
<1>3. AccountInv'
  BY <1>2, AccountQuiet DEF Inv, Begins, tables
<1>4. UserInv'
  <2>1. /\ \A n \in Name : user[n] \in live \cup {NoUser, Unlinked}
        /\ NoUser \notin live' /\ Unlinked \notin live'
    BY <1>2, RegistrationAssumption DEF Inv, Base, TableType, Begins, tables
  <2>2. \A s \in Thread : pc'[s] \in Signing =>
           /\ \E n \in Name : mem'[s] = {n}
           /\ (pc[s] \in Signing /\ acc'[s] = acc[s]) \/ acc'[s] \in live
    BY <1>2 DEF Inv, UserInv, Begins, Signing
  <2>3. \A s \in Thread : pc'[s] \in {"naming", "linking"} =>
           (pc[s] \in {"naming", "linking"} /\ acc'[s] = acc[s]) \/ Users(acc'[s]) = {}
    BY <1>2 DEF Begins
  <2>4. \A s \in Thread : pc[s] = "linking" => pc'[s] = "linking" /\ mem'[s] = mem[s]
    BY <1>2 DEF Begins
  <2>5. apart' = apart /\ live \subseteq live' /\ user' = user
    BY <1>2 DEF Begins, tables
  <2>6. UserInv
    BY DEF Inv
  <2>7. QED BY <2>1, <2>2, <2>3, <2>4, <2>5, <2>6, UserQuiet
<1>5. WishInv'
  <2>1. \A s \in Thread : Wishes(s)'
    BY <1>2 DEF Inv, WishInv, Wishes, Begins
  <2>2. \A s \in Thread : pc'[s] \in {"wishing", "resaving"} => acc'[s] \in Account
    BY <1>2 DEF Inv, Base, TableType, Owns, Begins
  <2>3. \A s \in Thread : pc'[s] \in {"wishing", "resaving"} =>
          pc[s] \in {"wishing", "resaving"} /\ acc'[s] = acc[s] /\ mem'[s] = mem[s]
    BY <1>2 DEF Begins
  <2>4. apart' = apart /\ wish' = wish
    BY <1>2 DEF Begins, tables
  <2>5. QED BY <2>1, <2>2, <2>3, <2>4, WishQuiet DEF Inv
<1>6. QED BY <1>2, <1>3, <1>4, <1>5 DEF Inv

LEMMA BeginAnyKeeps ==
  ASSUME Inv, NEW t \in Thread, BeginAny(t)
  PROVE  Inv'
<1>1. live \subseteq Account /\ of \in [Account -> Console]
  BY DEF Inv, Base, TableType
<1>2. ASSUME NEW c \in Console, BeginStatus(t, c) PROVE Inv'
  BY <1>2, BeginKeeps DEF BeginStatus, Missing, Handler, Does
<1>3. ASSUME NEW c \in Console, NEW a \in live, ByConsole(c, a) \/ ByUser(c, a)
      PROVE  a \in Account /\ of[a] = c
  BY <1>1, <1>3 DEF ByConsole, ByUser, Rows
<1>4. ASSUME NEW c \in Console, BeginUnregister(t, c) PROVE Inv'
  <2>1. PICK a \in live : ByConsole(c, a) /\ Begin(t, "unregister", c, a, {}, "collecting")
    BY <1>4 DEF BeginUnregister
  <2>2. Does("unregister", "collecting") /\ "unregister" \in Handler
    BY DEF Does, Handler
  <2>3. QED BY <1>3, <2>1, <2>2, BeginKeeps
<1>5. ASSUME NEW c \in Console, BeginSave(t, c) PROVE Inv'
  <2>1. PICK a \in live : /\ ByConsole(c, a) \/ ByUser(c, a)
                          /\ Begin(t, "save", c, a, {}, "saving")
    BY <1>5 DEF BeginSave
  <2>2. Does("save", "saving") /\ "save" \in Handler
    BY DEF Does, Handler
  <2>3. QED BY <1>3, <2>1, <2>2, BeginKeeps
<1>6. ASSUME NEW c \in Console, NEW x \in Title, BeginWish(t, c, x) PROVE Inv'
  <2>1. PICK a \in live : /\ ByConsole(c, a) \/ ByUser(c, a)
                          /\ \E o \in {"put", "add", "remove"} : Begin(t, o, c, a, {x}, "looking")
    BY <1>6 DEF BeginWish
  <2>2. PICK o \in {"put", "add", "remove"} : Begin(t, o, c, a, {x}, "looking")
    BY <2>1
  <2>3. Does(o, "looking") /\ o \in Handler
    BY DEF Does, Handler
  <2>4. QED BY <1>3, <2>1, <2>2, <2>3, BeginKeeps
<1>7. ASSUME NEW n \in Name, NEW a \in Account, BeginSignup(t, n, a) PROVE Inv'
  <2>1. a \in live /\ of[a] \in Console /\ Begin(t, "signup", of[a], a, {n}, "keying")
    BY <1>1, <1>7 DEF BeginSignup
  <2>2. Does("signup", "keying") /\ "signup" \in Handler
    BY DEF Does, Handler
  <2>3. QED BY <2>1, <2>2, BeginKeeps
<1>8. QED BY <1>2, <1>4, <1>5, <1>6, <1>7 DEF BeginAny

-----------------------------------------------------------------------------
(* The statements that change a request only *)

\* The parts that a step leaves alone, when only one request goes on.
LEMMA AccountKept ==
  ASSUME Inv, NEW t \in Thread, Continues(t), UNCHANGED <<live, of, gone>>,
         pc'[t] \notin {"creating", "saving"}
  PROVE  AccountInv'
BY AccountQuiet DEF Inv, Continues

LEMMA UsersKept ==
  ASSUME Inv, NEW t \in Thread, Continues(t), user' = user, live \subseteq live', live' \subseteq Account,
         pc'[t] \in Signing => pc[t] \in Signing /\ mem'[t] = mem[t],
         pc'[t] \in {"naming", "linking"} => Users(acc[t]) = {},
         pc[t] = "linking" => {"signup", "died"} \notin apart
  PROVE  UserInv'
<1>1. /\ \A n \in Name : user[n] \in live \cup {NoUser, Unlinked}
      /\ NoUser \notin live' /\ Unlinked \notin live'
  BY RegistrationAssumption DEF Inv, Base, TableType
<1>2. \A s \in Thread : pc'[s] \in Signing =>
         /\ \E n \in Name : mem'[s] = {n}
         /\ (pc[s] \in Signing /\ acc'[s] = acc[s]) \/ acc'[s] \in live
  <2>1. SUFFICES ASSUME NEW s \in Thread, pc'[s] \in Signing
                 PROVE  pc[s] \in Signing /\ mem'[s] = mem[s] /\ acc'[s] = acc[s]
    BY DEF Inv, UserInv
  <2>2. CASE s = t
    BY <2>1, <2>2 DEF Continues, Signing
  <2>3. CASE s # t
    BY <2>1, <2>3 DEF Continues, Signing
  <2>4. QED BY <2>2, <2>3
<1>3. \A s \in Thread : pc'[s] \in {"naming", "linking"} =>
         (pc[s] \in {"naming", "linking"} /\ acc'[s] = acc[s]) \/ Users(acc'[s]) = {}
  BY DEF Continues
<1>4. \A s \in Thread : pc[s] = "linking" /\ {"signup", "died"} \in apart =>
        pc'[s] = "linking" /\ mem'[s] = mem[s]
  BY DEF Continues
<1>5. apart' = apart /\ UserInv
  BY DEF Inv, Continues
<1>6. QED BY <1>1, <1>2, <1>3, <1>4, <1>5, UserQuiet

LEMMA WishesKept ==
  ASSUME Inv, NEW t \in Thread, Continues(t), Base',
         \A e \in Entry : wish'[e] = wish[e] \/ wish'[e] = NoWish,
         Wishes(t)',
         pc'[t] \in {"wishing", "resaving"} => \A x \in mem'[t] \cap Title : Entries(acc[t], x) = {}
  PROVE  WishInv'
<1>1. \A s \in Thread : Wishes(s)'
  BY DEF Inv, WishInv, Wishes, Continues
<1>2. \A s \in Thread : pc'[s] \in {"wishing", "resaving"} => acc'[s] \in Account
  BY DEF Base, TableType, Owns
<1>3. \A s \in Thread : pc'[s] \in {"wishing", "resaving"} =>
         \/ pc[s] \in {"wishing", "resaving"} /\ acc'[s] = acc[s] /\ mem'[s] = mem[s]
         \/ \A x \in mem'[s] \cap Title : Entries(acc'[s], x) = {}
  BY DEF Continues
<1>4. apart' = apart /\ WishInv
  BY DEF Inv, Continues
<1>5. QED BY <1>1, <1>2, <1>3, <1>4, WishQuiet

LEMMA TablesKept ==
  ASSUME Inv, NEW t \in Thread, Continues(t), RequestInv', UNCHANGED tables,
         pc'[t] \notin {"creating", "saving"},
         pc'[t] \in Signing => pc[t] \in Signing /\ mem'[t] = mem[t],
         pc'[t] \in {"naming", "linking"} => Users(acc[t]) = {},
         pc[t] = "linking" => {"signup", "died"} \notin apart,
         Wishes(t)',
         pc'[t] \in {"wishing", "resaving"} => \A x \in mem'[t] \cap Title : Entries(acc[t], x) = {}
  PROVE  Inv'
<1>1. UNCHANGED <<live, of, gone, user, wish>>
  BY DEF tables
<1>2. TableType' /\ live \subseteq Account
  BY <1>1 DEF Inv, Base, TableType
<1>3. \A s \in Thread : Owns(s)'
  BY <1>1, OwnsKept DEF Inv, Base
<1>4. Base'
  BY <1>2, <1>3 DEF Base
<1>5. AccountInv'
  BY <1>1, AccountKept
<1>6. UserInv'
  BY <1>1, <1>2, UsersKept
<1>7. WishInv'
  BY <1>1, <1>4, WishesKept
<1>8. QED BY <1>4, <1>5, <1>6, <1>7 DEF Inv

\* A request that ends, before it has a user to link.
LEMMA EndKeeps ==
  ASSUME Inv, NEW t \in Thread, pc[t] # "idle", End(t), UNCHANGED tables,
         pc[t] = "linking" => {"signup", "died"} \notin apart
  PROVE  Inv'
<1>1. RequestInv' /\ Continues(t) /\ pc'[t] = "idle"
  BY EndFacts DEF Inv, Base
<1>2. Wishes(t)' /\ pc'[t] \notin Signing
  BY <1>1 DEF Wishes, Signing
<1>3. QED BY <1>1, <1>2, TablesKept

LEMMA CollectKeeps ==
  ASSUME Inv, NEW t \in Thread, Collect(t)
  PROVE  Inv'
<1>1. pc[t] = "collecting" /\ Hold(t, "deleting", Users(acc[t])) /\ UNCHANGED tables
  BY DEF Collect, At
<1>2. Does(op[t], "deleting") /\ "deleting" \in Statement /\ Users(acc[t]) \subseteq Name
  BY <1>1 DEF Inv, Base, RequestInv, Does, Statement, Users
<1>3. RequestInv' /\ Continues(t) /\ pc'[t] = "deleting"
  BY <1>1, <1>2, HoldFacts DEF Inv, Base
<1>4. Wishes(t)' /\ pc'[t] \notin Signing
  BY <1>3 DEF Wishes, Signing
<1>5. QED BY <1>1, <1>3, <1>4, TablesKept

LEMMA LookKeeps ==
  ASSUME Inv, NEW t \in Thread, Look(t)
  PROVE  Inv'
<1>1. pc[t] = "looking" /\ UNCHANGED tables
  BY DEF Look, At
<1>2. PICK x \in Title : mem[t] = {x}
  BY <1>1 DEF Inv, WishInv, Wishes
<1>3. \/ op[t] # "remove" /\ Entries(acc[t], x) = {} /\ Goto(t, "wishing")
      \/ \E e \in Entry : op[t] = "remove" /\ Hold(t, "unwishing", {e})
      \/ End(t)
  BY <1>2 DEF Look, Listed, Entries
<1>4. ASSUME op[t] # "remove", Entries(acc[t], x) = {}, Goto(t, "wishing") PROVE Inv'
  <2>1. Does(op[t], "wishing") /\ "wishing" \in Statement
    BY <1>1, <1>4 DEF Inv, Base, RequestInv, Does, Statement
  <2>2. RequestInv' /\ Continues(t) /\ pc'[t] = "wishing" /\ mem' = mem
    BY <1>1, <1>4, <2>1, GotoFacts DEF Inv, Base
  <2>3. Wishes(t)' /\ pc'[t] \notin Signing
    BY <1>2, <2>2 DEF Wishes, Signing
  <2>4. QED BY <1>1, <1>2, <1>4, <2>2, <2>3, TablesKept
<1>5. ASSUME NEW e \in Entry, op[t] = "remove", Hold(t, "unwishing", {e}) PROVE Inv'
  <2>1. Does(op[t], "unwishing") /\ "unwishing" \in Statement
    BY <1>1, <1>5 DEF Does, Statement
  <2>2. RequestInv' /\ Continues(t) /\ pc'[t] = "unwishing" /\ mem'[t] = {e}
    BY <1>1, <1>5, <2>1, HoldFacts DEF Inv, Base
  <2>3. Wishes(t)' /\ pc'[t] \notin Signing
    BY <2>2 DEF Wishes, Signing
  <2>4. QED BY <1>1, <2>2, <2>3, TablesKept
<1>6. CASE End(t)
  BY <1>1, <1>6, EndKeeps
<1>7. QED BY <1>3, <1>4, <1>5, <1>6

LEMMA FindKeyKeeps ==
  ASSUME Inv, NEW t \in Thread, FindKey(t)
  PROVE  Inv'
<1>1. pc[t] = "keying" /\ UNCHANGED tables
  BY DEF FindKey, At
<1>2. ASSUME Goto(t, "checking") PROVE Inv'
  <2>1. Does(op[t], "checking") /\ "checking" \in Statement
    BY <1>1 DEF Inv, Base, RequestInv, Does, Statement
  <2>2. RequestInv' /\ Continues(t) /\ pc'[t] = "checking" /\ mem' = mem
    BY <1>1, <1>2, <2>1, GotoFacts DEF Inv, Base
  <2>3. Wishes(t)'
    BY <2>2 DEF Wishes
  <2>4. QED BY <1>1, <2>2, <2>3, TablesKept DEF Signing
<1>3. CASE End(t)
  BY <1>1, <1>3, EndKeeps
<1>4. QED BY <1>2, <1>3 DEF FindKey

LEMMA CheckUserKeeps ==
  ASSUME Inv, NEW t \in Thread, CheckUser(t)
  PROVE  Inv'
<1>1. pc[t] = "checking" /\ UNCHANGED tables
  BY DEF CheckUser, At
<1>2. ASSUME Unclaimed(acc[t]), Goto(t, "naming") PROVE Inv'
  <2>1. Does(op[t], "naming") /\ "naming" \in Statement
    BY <1>1 DEF Inv, Base, RequestInv, Does, Statement
  <2>2. RequestInv' /\ Continues(t) /\ pc'[t] = "naming" /\ mem' = mem
    BY <1>1, <1>2, <2>1, GotoFacts DEF Inv, Base
  <2>3. Wishes(t)' /\ Users(acc[t]) = {}
    BY <1>2, <2>2 DEF Wishes, Unclaimed
  <2>4. QED BY <1>1, <2>2, <2>3, TablesKept DEF Signing
<1>3. CASE End(t)
  BY <1>1, <1>3, EndKeeps
<1>4. QED BY <1>2, <1>3 DEF CheckUser

LEMMA DieKeeps ==
  ASSUME Inv, NEW t \in Thread, Die(t)
  PROVE  Inv'
<1>1. pc[t] # "idle" /\ End(t) /\ UNCHANGED tables /\ {op[t], "died"} \notin apart
  BY DEF Die, At
<1>2. pc[t] = "linking" => op[t] = "signup"
  BY DEF Inv, Base, RequestInv, Does
<1>3. QED BY <1>1, <1>2, EndKeeps

-----------------------------------------------------------------------------
(* The statements that write the accounts *)

\* Two requests of one console, by their handlers.
LEMMA Overlap ==
  ASSUME Inv, NEW s \in Thread, NEW t \in Thread, s # t, pc[s] # "idle", pc[t] # "idle",
         who[s] = who[t]
  PROVE  {op[s], op[t]} \notin apart
BY DEF Inv, Base, RequestInv, KeptApart

LEMMA CreateKeeps ==
  ASSUME Inv, NEW t \in Thread, Create(t)
  PROVE  Inv'
<1>1. /\ pc[t] = "creating" /\ End(t)
      /\ gone' = gone /\ user' = user /\ wish' = wish
  BY DEF Create, At
<1>2. PICK a \in Fresh : live' = live \cup {a} /\ of' = [of EXCEPT ![a] = who[t]]
  BY DEF Create
<1>3. a \in Account /\ a \notin live /\ a \notin gone /\ who[t] \in Console
  BY DEF Fresh, Inv, Base, RequestInv, RequestType
<1>4. /\ of'[a] = who[t] /\ \A b \in Account : b # a => of'[b] = of[b]
      /\ live \subseteq Account /\ gone \subseteq Account
  BY <1>2, <1>3 DEF Inv, Base, TableType
<1>5. RequestInv' /\ Continues(t) /\ pc'[t] = "idle"
  BY <1>1, EndFacts DEF Inv, Base
<1>6. Base'
  <2>1. TableType'
    BY <1>1, <1>2, <1>3 DEF Inv, Base, TableType
  <2>2. \A s \in Thread : Owns(s)'
    BY <1>1, <1>2, <1>3, <1>4, <1>5 DEF Inv, Base, Owns, Continues
  <2>3. QED BY <1>5, <2>1, <2>2 DEF Base
<1>7. AccountInv'
  <2>1. \A c \in Console : c # who[t] => Rows(c)' = Rows(c)
    BY <1>2, <1>3, <1>4 DEF Rows
  <2>2. Apart({{"save", "unregister"}})' =>
          \A s \in Thread : pc'[s] = "saving" => acc'[s] \in live'
    BY <1>2, <1>5 DEF Inv, AccountInv, Apart, Continues
  <2>3. ASSUME Apart({{"status"}, {"save", "unregister"}})
        PROVE  /\ \A b, c \in live' : of'[b] = of'[c] => b = c
               /\ \A s \in Thread : pc'[s] = "creating" => {b \in live' : of'[b] = who'[s]} = {}
    <3>1. Rows(who[t]) = {}
      BY <1>1, <2>3 DEF Inv, AccountInv
    <3>2. \A b, c \in live : of[b] = of[c] => b = c
      BY <2>3 DEF Inv, AccountInv, OneAccount, Apart
    <3>3. \A b, c \in live' : of'[b] = of'[c] => b = c
      BY <1>2, <1>4, <3>1, <3>2 DEF Rows
    <3>4. SUFFICES ASSUME NEW s \in Thread, pc'[s] = "creating"
                   PROVE  {b \in live' : of'[b] = who'[s]} = {}
      BY <3>3
    <3>5. s # t /\ pc[s] = "creating" /\ who'[s] = who[s] /\ who[s] \in Console
      BY <1>5, <3>4 DEF Continues, Inv, Base, RequestInv, RequestType
    <3>6. op[s] = "status" /\ op[t] = "status"
      BY <1>1, <3>5 DEF Inv, Base, RequestInv, Does
    <3>7. who[s] # who[t]
      <4>1. SUFFICES ASSUME who[s] = who[t] PROVE FALSE
        OBVIOUS
      <4>2. {op[s], op[t]} \notin apart
        BY <1>1, <3>5, <4>1, Overlap
      <4>3. {op[s], op[t]} = {"status"}
        BY <3>6
      <4>4. QED BY <2>3, <4>2, <4>3 DEF Apart
    <3>8. {b \in live' : of'[b] = who[s]} = {}
      <4>1. Rows(who[s]) = {}
        BY <2>3, <3>5 DEF Inv, AccountInv
      <4>2. QED BY <1>2, <1>4, <3>7, <4>1 DEF Rows
    <3>9. QED BY <3>5, <3>8
  <2>4. OneAccount'
    BY <1>5, <2>3 DEF OneAccount, Apart, Continues
  <2>5. Apart({{"status"}, {"save", "unregister"}})' =>
          \A s \in Thread : pc'[s] = "creating" => {b \in live' : of'[b] = who'[s]} = {}
    BY <1>5, <2>3 DEF Apart, Continues
  <2>6. QED BY <2>2, <2>4, <2>5 DEF AccountInv, Rows
<1>8. UserInv'
  BY <1>1, <1>2, <1>3, <1>4, <1>5, UsersKept DEF Signing
<1>9. WishInv'
  BY <1>1, <1>5, <1>6, WishesKept DEF Wishes
<1>10. QED BY <1>6, <1>7, <1>8, <1>9 DEF Inv

LEMMA SaveRowKeeps ==
  ASSUME Inv, NEW t \in Thread, SaveRow(t)
  PROVE  Inv'
<1>1. /\ pc[t] = "saving" /\ End(t) /\ live' = live \cup {acc[t]}
      /\ of' = of /\ gone' = gone /\ user' = user /\ wish' = wish
  BY DEF SaveRow, At
<1>2. acc[t] \in live \cup gone /\ live \subseteq Account /\ gone \subseteq Account
  BY <1>1 DEF Inv, Base, TableType, Owns
<1>3. RequestInv' /\ Continues(t) /\ pc'[t] = "idle"
  BY <1>1, EndFacts DEF Inv, Base
<1>4. Base'
  <2>1. TableType'
    BY <1>1, <1>2 DEF Inv, Base, TableType
  <2>2. \A s \in Thread : Owns(s)'
    BY <1>1, <1>3, OwnsKept DEF Inv, Base
  <2>3. QED BY <1>3, <2>1, <2>2 DEF Base
<1>5. AccountInv'
  <2>1. CASE Apart({{"save", "unregister"}})
    <3>1. live' = live
      BY <1>1, <2>1 DEF Inv, AccountInv
    <3>2. QED BY <1>1, <1>3, <3>1, AccountKept
  <2>2. CASE ~Apart({{"save", "unregister"}})
    BY <1>3, <2>2 DEF AccountInv, OneAccount, Apart, Continues
  <2>3. QED BY <2>1, <2>2
<1>6. UserInv'
  BY <1>1, <1>2, <1>3, UsersKept DEF Signing
<1>7. WishInv'
  BY <1>1, <1>3, <1>4, WishesKept DEF Wishes
<1>8. QED BY <1>4, <1>5, <1>6, <1>7 DEF Inv

LEMMA DeleteKeeps ==
  ASSUME Inv, NEW t \in Thread, Delete(t)
  PROVE  Inv'
<1> DEFINE a == acc[t]
<1>1. /\ pc[t] = "deleting" /\ Found(t) /\ End(t)
      /\ live' = live \ {a} /\ gone' = gone \cup {a} /\ of' = of
      /\ user' = [n \in Name |-> IF n \in mem[t] /\ user[n] = a THEN NoUser ELSE user[n]]
      /\ wish' = [e \in Entry |-> IF \E x \in Title : wish[e] = <<a, x>> THEN NoWish ELSE wish[e]]
  BY DEF Delete, At
<1>2. /\ a \in live \cup gone /\ of[a] = who[t] /\ live \subseteq Account /\ gone \subseteq Account
      /\ op[t] = "unregister"
  BY <1>1 DEF Inv, Base, TableType, RequestInv, Owns, Does
<1>3. RequestInv' /\ Continues(t) /\ pc'[t] = "idle"
  BY <1>1, EndFacts DEF Inv, Base
<1>4. \A n \in Name : /\ user[n] \in live \cup {NoUser, Unlinked}
                      /\ user'[n] = IF user[n] = a THEN NoUser ELSE user[n]
  BY <1>1 DEF Found, Users, Inv, Base, TableType
<1>5. \A e \in Entry : wish'[e] = wish[e] \/ wish'[e] = NoWish
  BY <1>1
<1>6. Base'
  <2>1. user' \in [Name -> live' \cup {NoUser, Unlinked}]
    BY <1>1, <1>4
  <2>2. wish' \in [Entry -> (live' \X Title) \cup {NoWish}]
    <3>1. SUFFICES ASSUME NEW e \in Entry PROVE wish'[e] \in (live' \X Title) \cup {NoWish}
      BY <1>1
    <3>2. CASE wish[e] = NoWish
      BY <1>5, <3>2
    <3>3. CASE wish[e] \in live \X Title
      <4>1. PICK b \in live, x \in Title : wish[e] = <<b, x>>
        BY <3>3
      <4>2. CASE b = a
        BY <1>1, <4>1, <4>2
      <4>3. CASE b # a
        <5>1. b \in live'
          BY <1>1, <4>3
        <5>2. <<b, x>> \in live' \X Title
          BY <5>1
        <5>3. QED BY <1>5, <4>1, <5>2
      <4>4. QED BY <4>2, <4>3
    <3>4. QED BY <3>2, <3>3 DEF Inv, Base, TableType
  <2>3. TableType'
    BY <1>1, <1>2, <2>1, <2>2 DEF Inv, Base, TableType
  <2>4. \A s \in Thread : Owns(s)'
    BY <1>1, <1>3, OwnsKept DEF Inv, Base
  <2>5. QED BY <1>3, <2>3, <2>4 DEF Base
<1>7. AccountInv'
  <2>1. ASSUME Apart({{"save", "unregister"}}), NEW s \in Thread, pc'[s] = "saving"
        PROVE  acc'[s] \in live'
    <3>1. s # t /\ pc[s] = "saving" /\ acc'[s] = acc[s]
      BY <1>3, <2>1 DEF Continues
    <3>2. acc[s] \in live /\ of[acc[s]] = who[s] /\ op[s] = "save"
      BY <2>1, <3>1 DEF Inv, AccountInv, Base, RequestInv, Owns, Does
    <3>3. acc[s] # a
      <4>1. SUFFICES ASSUME acc[s] = a PROVE FALSE
        OBVIOUS
      <4>2. who[s] = who[t]
        BY <1>2, <3>2, <4>1
      <4>3. {op[s], op[t]} \notin apart
        BY <1>1, <3>1, <4>2, Overlap
      <4>4. QED BY <1>2, <2>1, <3>2, <4>3 DEF Apart
    <3>4. QED BY <1>1, <3>1, <3>2, <3>3
  <2>2. Apart({{"save", "unregister"}})' =>
          \A s \in Thread : pc'[s] = "saving" => acc'[s] \in live'
    BY <1>3, <2>1 DEF Apart, Continues
  <2>3. OneAccount'
    BY <1>1, <1>3 DEF Inv, AccountInv, OneAccount, Continues
  <2>4. ASSUME Apart({{"status"}, {"save", "unregister"}}), NEW s \in Thread, pc'[s] = "creating"
        PROVE  {b \in live' : of'[b] = who'[s]} = {}
    <3>1. pc[s] = "creating" /\ who'[s] = who[s]
      BY <1>3, <2>4 DEF Continues
    <3>2. Rows(who[s]) = {}
      BY <2>4, <3>1 DEF Inv, AccountInv
    <3>3. QED BY <1>1, <3>1, <3>2 DEF Rows
  <2>5. Apart({{"status"}, {"save", "unregister"}})' =>
          \A s \in Thread : pc'[s] = "creating" => {b \in live' : of'[b] = who'[s]} = {}
    BY <1>3, <2>4 DEF Apart, Continues
  <2>6. QED BY <2>2, <2>3, <2>5 DEF AccountInv, Rows
<1>8. UserInv'
  <2>1. \A s \in Thread : pc'[s] \in Signing =>
          s # t /\ pc[s] = pc'[s] /\ acc'[s] = acc[s] /\ mem'[s] = mem[s]
    BY <1>3 DEF Continues, Signing
  <2>2. \A b \in Account : {n \in Name : user'[n] = b} \subseteq Users(b)
    BY <1>4, RegistrationAssumption DEF Users
  <2>3. OneUser'
    BY <1>1, <1>2, <1>3, <1>4, RegistrationAssumption DEF Inv, UserInv, OneUser, Continues
  <2>4. UnlinkedForAReason'
    <3>1. SUFFICES ASSUME {{"signup", "died"}, {"signup", "unregister"}} \subseteq apart,
                          NEW n \in Name, user'[n] = Unlinked
                   PROVE  \E s \in Thread : pc'[s] = "linking" /\ n \in mem'[s]
      BY <1>3 DEF UnlinkedForAReason, At, Continues
    <3>2. user[n] = Unlinked
      BY <1>4, <3>1, RegistrationAssumption
    <3>3. PICK s \in Thread : pc[s] = "linking" /\ n \in mem[s]
      BY <3>1, <3>2 DEF Inv, UserInv, UnlinkedForAReason, At
    <3>4. QED BY <1>1, <1>3, <3>3 DEF Continues
  <2>5. Apart({{"signup"}}) =>
          \A s \in Thread : pc'[s] \in {"naming", "linking"} => {n \in Name : user'[n] = acc'[s]} = {}
    <3>1. SUFFICES ASSUME Apart({{"signup"}}), NEW s \in Thread, pc'[s] \in {"naming", "linking"}
                   PROVE  {n \in Name : user'[n] = acc'[s]} = {}
      OBVIOUS
    <3>2. pc[s] \in {"naming", "linking"} /\ acc'[s] = acc[s]
      BY <2>1, <3>1 DEF Signing
    <3>3. Users(acc[s]) = {} /\ acc[s] \in Account
      BY <1>2, <3>1, <3>2 DEF Inv, UserInv, Base, Owns
    <3>4. QED BY <2>2, <3>2, <3>3
  <2>6. ASSUME Apart({{"signup", "unregister"}}), NEW s \in Thread, pc'[s] \in Signing
        PROVE  acc'[s] \in live'
    <3>1. acc[s] \in live /\ of[acc[s]] = who[s] /\ op[s] = "signup" /\ pc[s] # "idle"
      BY <2>1, <2>6 DEF Inv, UserInv, Base, RequestInv, Owns, Does, Signing
    <3>2. acc[s] # a
      <4>1. SUFFICES ASSUME acc[s] = a PROVE FALSE
        OBVIOUS
      <4>2. {op[s], op[t]} \notin apart
        BY <1>1, <1>2, <2>1, <2>6, <3>1, <4>1, Overlap
      <4>3. QED BY <1>2, <2>6, <3>1, <4>2 DEF Apart
    <3>3. QED BY <1>1, <2>1, <2>6, <3>1, <3>2
  <2>7. apart' = apart
    BY <1>3 DEF Continues
  <2>8. Apart({{"signup", "unregister"}})' =>
          \A s \in Thread : pc'[s] \in Signing => acc'[s] \in live'
    BY <2>6, <2>7 DEF Apart
  <2>9. Apart({{"signup"}})' =>
          \A s \in Thread : pc'[s] \in {"naming", "linking"} => {n \in Name : user'[n] = acc'[s]} = {}
    BY <2>5, <2>7 DEF Apart
  <2>10. \A s \in Thread : pc'[s] \in Signing => \E n \in Name : mem'[s] = {n}
    BY <2>1 DEF Inv, UserInv
  <2>11. QED BY <2>3, <2>4, <2>8, <2>9, <2>10 DEF UserInv, Users, Signing
<1>9. WishInv'
  BY <1>3, <1>5, <1>6, WishesKept DEF Wishes
<1>10. QED BY <1>6, <1>7, <1>8, <1>9 DEF Inv

-----------------------------------------------------------------------------
(* The statements that write the wishlists *)

\* A row e of a request for title x is written.
LEMMA WriteWish ==
  ASSUME Inv, NEW t \in Thread, NEW x \in Title, NEW e \in Entry, Continues(t),
         pc[t] \in {"wishing", "resaving"}, op[t] \in {"put", "add"}, acc[t] \in Account,
         Entries(acc[t], x) \subseteq {e} \/ ~Apart(Wishing),
         wish' = [wish EXCEPT ![e] = <<acc[t], x>>], Wishes(t)',
         pc'[t] = "idle" \/ (mem'[t] = {x, e} /\ acc'[t] = acc[t])
  PROVE  WishInv'
<1>1. /\ wish'[e] = <<acc[t], x>> /\ \A d \in Entry : d # e => wish'[d] = wish[d]
      /\ apart' = apart
  BY DEF Inv, Base, TableType, Continues
<1>2. \A s \in Thread : Wishes(s)'
  BY DEF Inv, WishInv, Wishes, Continues
<1>3. ASSUME Apart(Wishing)
      PROVE  \A d \in Entry : wish'[d] = <<acc[t], x>> => d = e
  BY <1>1, <1>3 DEF Entries
<1>4. WishedOnce'
  <2>1. SUFFICES ASSUME Apart(Wishing), NEW c \in Entry, NEW d \in Entry, wish'[c] = wish'[d],
                        wish'[c] # NoWish
                 PROVE  c = d
    BY <1>1 DEF WishedOnce, Apart, Wishing
  <2>2. CASE wish'[c] = <<acc[t], x>>
    BY <1>3, <2>1, <2>2
  <2>3. CASE wish'[c] # <<acc[t], x>>
    <3>1. wish[c] = wish[d] /\ wish[c] # NoWish
      BY <1>1, <2>1, <2>3
    <3>2. QED BY <2>1, <3>1 DEF Inv, WishInv, WishedOnce, Apart, Wishing
  <2>4. QED BY <2>2, <2>3
<1>5. ASSUME Apart(Wishing), NEW s \in Thread, pc'[s] \in {"wishing", "resaving"},
             NEW y \in mem'[s] \cap Title
      PROVE  {d \in Entry : wish'[d] = <<acc'[s], y>>} \subseteq mem'[s]
  <2>1. CASE s = t
    <3>1. mem'[s] = {x, e} /\ acc'[s] = acc[t]
      BY <1>5, <2>1
    <3>2. y = x
      BY <3>1, NamesAssumption
    <3>3. QED BY <1>3, <1>5, <3>1, <3>2
  <2>2. CASE s # t
    <3>1. pc[s] \in {"wishing", "resaving"} /\ mem'[s] = mem[s] /\ acc'[s] = acc[s]
      BY <1>5, <2>2 DEF Continues
    <3>2. op[s] \in {"put", "add"} /\ of[acc[s]] = who[s] /\ of[acc[t]] = who[t]
      BY <3>1 DEF Inv, Base, RequestInv, Does, Owns
    <3>3. acc[s] # acc[t]
      <4>1. SUFFICES ASSUME acc[s] = acc[t] PROVE FALSE
        OBVIOUS
      <4>2. {op[s], op[t]} \notin apart
        BY <2>2, <3>1, <3>2, <4>1, Overlap
      <4>3. {op[s], op[t]} \in Wishing
        <5>1. CASE op[s] = op[t]
          BY <3>2, <5>1 DEF Wishing
        <5>2. CASE op[s] = "put" /\ op[t] = "add"
          BY <5>2 DEF Wishing
        <5>3. CASE op[s] = "add" /\ op[t] = "put"
          <6>1. {op[s], op[t]} = {"put", "add"}
            BY <5>3
          <6>2. QED BY <6>1 DEF Wishing
        <5>4. QED BY <3>2, <5>1, <5>2, <5>3
      <4>4. QED BY <1>5, <4>2, <4>3 DEF Apart
    <3>4. Entries(acc[s], y) \subseteq mem[s]
      BY <1>5, <3>1 DEF Inv, WishInv, Alone
    <3>5. \A d \in Entry : wish'[d] = <<acc[s], y>> => wish[d] = <<acc[s], y>>
      BY <1>1, <3>3
    <3>6. QED BY <3>1, <3>4, <3>5 DEF Entries
  <2>3. QED BY <2>1, <2>2
<1>6. Apart(Wishing)' => \A s \in Thread : Alone(s)'
  BY <1>1, <1>5 DEF Apart, Alone, Entries
<1>7. QED BY <1>2, <1>4, <1>6 DEF WishInv

\* The parts of the invariant that have nothing to do with wishes.
LEMMA WishStep ==
  ASSUME Inv, NEW t \in Thread, RequestInv', Continues(t), UNCHANGED <<live, of, gone, user>>,
         wish' \in [Entry -> (live \X Title) \cup {NoWish}],
         pc'[t] \in {"idle", "resaving"}, pc[t] # "linking"
  PROVE  Base' /\ AccountInv' /\ UserInv'
<1>1. TableType' /\ live \subseteq Account
  BY DEF Inv, Base, TableType
<1>2. \A s \in Thread : Owns(s)'
  BY OwnsKept DEF Inv, Base
<1>3. AccountInv'
  BY AccountKept
<1>4. UserInv'
  BY <1>1, UsersKept DEF Signing
<1>5. QED BY <1>1, <1>2, <1>3, <1>4 DEF Base

LEMMA CreateWishKeeps ==
  ASSUME Inv, NEW t \in Thread, CreateWish(t)
  PROVE  Inv'
<1>1. pc[t] = "wishing" /\ UNCHANGED <<live, of, gone, user>>
  BY DEF CreateWish, At
<1>2. op[t] \in {"put", "add"} /\ live \subseteq Account
  BY <1>1 DEF Inv, Base, RequestInv, TableType, Does
<1>3. ASSUME acc[t] \in live, NEW x \in mem[t] \cap Title, NEW e \in Spare,
             wish' = [wish EXCEPT ![e] = <<acc[t], x>>],
             IF op[t] = "put" THEN Hold(t, "resaving", {x, e}) ELSE End(t)
      PROVE  Inv'
  <2>1. e \in Entry
    BY DEF Spare
  <2>2. /\ RequestInv' /\ Continues(t)
        /\ pc'[t] = "idle" \/ (pc'[t] = "resaving" /\ mem'[t] = {x, e} /\ acc'[t] = acc[t])
    <3>1. CASE op[t] = "put"
      <4>1. Does(op[t], "resaving") /\ "resaving" \in Statement
        BY <3>1 DEF Does, Statement
      <4>2. {x, e} \in SUBSET (Name \cup Title \cup Entry) /\ Hold(t, "resaving", {x, e})
        BY <1>3, <2>1, <3>1
      <4>3. QED BY <1>1, <4>1, <4>2, HoldFacts DEF Inv, Base
    <3>2. CASE op[t] # "put"
      <4>1. End(t) /\ RequestInv
        BY <1>3, <3>2 DEF Inv, Base
      <4>2. QED BY <1>1, <4>1, EndFacts
    <3>3. QED BY <3>1, <3>2
  <2>3. wish' \in [Entry -> (live \X Title) \cup {NoWish}]
    BY <1>3, <2>1 DEF Inv, Base, TableType
  <2>4. Base' /\ AccountInv' /\ UserInv'
    BY <1>1, <2>2, <2>3, WishStep
  <2>5. Wishes(t)'
    BY <2>1, <2>2 DEF Wishes
  <2>6. Entries(acc[t], x) \subseteq {e} \/ ~Apart(Wishing)
    <3>1. SUFFICES ASSUME Apart(Wishing) PROVE Entries(acc[t], x) \subseteq {e}
      OBVIOUS
    <3>2. Entries(acc[t], x) \subseteq mem[t]
      BY <1>1, <1>3, <3>1 DEF Inv, WishInv, Alone
    <3>3. mem[t] \subseteq Title
      BY <1>1 DEF Inv, WishInv, Wishes
    <3>4. QED BY <3>2, <3>3, NamesAssumption DEF Entries
  <2>7. x \in Title /\ acc[t] \in Account
    BY <1>2, <1>3
  <2>8. pc'[t] = "idle" \/ (mem'[t] = {x, e} /\ acc'[t] = acc[t])
    BY <2>2
  <2>9. WishInv'
    BY <1>1, <1>2, <1>3, <2>1, <2>2, <2>5, <2>6, <2>7, <2>8, WriteWish
  <2>10. QED BY <2>4, <2>9 DEF Inv
<1>4. ASSUME UNCHANGED wish, End(t) PROVE Inv'
  BY <1>1, <1>4, EndKeeps DEF tables
<1>5. QED BY <1>3, <1>4 DEF CreateWish

LEMMA ResaveKeeps ==
  ASSUME Inv, NEW t \in Thread, Resave(t)
  PROVE  Inv'
<1>1. pc[t] = "resaving" /\ End(t) /\ UNCHANGED <<live, of, gone, user>>
  BY DEF Resave, At
<1>2. PICK x \in Title, e \in Entry : mem[t] = {x, e}
  BY <1>1 DEF Inv, WishInv, Wishes
<1>3. wish' = IF acc[t] \in live THEN [wish EXCEPT ![e] = <<acc[t], x>>] ELSE wish
  BY <1>2, NamesAssumption DEF Resave
<1>4. RequestInv' /\ Continues(t) /\ pc'[t] = "idle"
  BY <1>1, EndFacts DEF Inv, Base
<1>5. CASE acc[t] \in live
  <2>1. wish' \in [Entry -> (live \X Title) \cup {NoWish}]
    BY <1>3, <1>5 DEF Inv, Base, TableType
  <2>2. Base' /\ AccountInv' /\ UserInv'
    BY <1>1, <1>4, <2>1, WishStep
  <2>3. op[t] \in {"put", "add"} /\ acc[t] \in Account
    BY <1>1, <1>5 DEF Inv, Base, RequestInv, TableType, Does
  <2>4. Entries(acc[t], x) \subseteq {e} \/ ~Apart(Wishing)
    <3>1. SUFFICES ASSUME Apart(Wishing) PROVE Entries(acc[t], x) \subseteq {e}
      OBVIOUS
    <3>2. Entries(acc[t], x) \subseteq mem[t]
      BY <1>1, <1>2, <3>1 DEF Inv, WishInv, Alone
    <3>3. QED BY <1>2, <3>2, NamesAssumption DEF Entries
  <2>5. Wishes(t)'
    BY <1>4 DEF Wishes
  <2>6. WishInv'
    BY <1>1, <1>3, <1>4, <1>5, <2>3, <2>4, <2>5, WriteWish
  <2>7. QED BY <2>2, <2>6 DEF Inv
<1>6. CASE acc[t] \notin live
  BY <1>1, <1>3, <1>6, EndKeeps DEF tables
<1>7. QED BY <1>5, <1>6

LEMMA RemoveWishKeeps ==
  ASSUME Inv, NEW t \in Thread, RemoveWish(t)
  PROVE  Inv'
<1>1. pc[t] = "unwishing" /\ End(t) /\ UNCHANGED <<live, of, gone, user>>
  BY DEF RemoveWish, At
<1>2. PICK e \in Entry : wish' = [wish EXCEPT ![e] = NoWish]
  BY DEF RemoveWish
<1>3. RequestInv' /\ Continues(t) /\ pc'[t] = "idle"
  BY <1>1, EndFacts DEF Inv, Base
<1>4. /\ wish' \in [Entry -> (live \X Title) \cup {NoWish}]
      /\ \A d \in Entry : wish'[d] = wish[d] \/ wish'[d] = NoWish
  BY <1>2 DEF Inv, Base, TableType
<1>5. Base' /\ AccountInv' /\ UserInv'
  BY <1>1, <1>3, <1>4, WishStep
<1>6. Wishes(t)'
  BY <1>3 DEF Wishes
<1>7. WishInv'
  BY <1>3, <1>4, <1>5, <1>6, WishesKept
<1>8. QED BY <1>5, <1>7 DEF Inv

-----------------------------------------------------------------------------
(* The statements that write the web users *)

\* The user n of a request is written: as it is created, or as it is linked.
LEMMA WriteUser ==
  ASSUME Inv, NEW t \in Thread, NEW n \in Name, NEW v \in live \cup {Unlinked}, Continues(t),
         UNCHANGED <<live, of, gone, wish>>, user' = [user EXCEPT ![n] = v],
         pc[t] \in {"naming", "linking"}, mem[t] = {n},
         \/ v = Unlinked /\ pc[t] = "naming" /\ pc'[t] = "linking" /\ mem'[t] = {n}
         \/ v = acc[t] /\ pc[t] = "linking" /\ pc'[t] = "idle",
         RequestInv'
  PROVE  Inv'
<1>1. /\ live \subseteq Account /\ apart' = apart /\ user'[n] = v
      /\ \A m \in Name : m # n => user'[m] = user[m]
      /\ \A m \in Name : user[m] \in live \cup {NoUser, Unlinked}
      /\ op[t] = "signup" /\ acc[t] \in Account /\ of[acc[t]] = who[t]
  BY DEF Inv, Base, TableType, RequestInv, Does, Owns, Continues
<1>2. Base'
  <2>1. TableType'
    BY DEF Inv, Base, TableType
  <2>2. \A s \in Thread : Owns(s)'
    BY OwnsKept DEF Inv, Base
  <2>3. QED BY <2>1, <2>2 DEF Base
<1>3. AccountInv'
  BY AccountKept
<1>4. WishInv'
  <2>1. Wishes(t)'
    BY DEF Wishes
  <2>2. QED BY <1>2, <2>1, WishesKept
<1>5. \A s \in Thread : pc'[s] \in Signing => \E m \in Name : mem'[s] = {m}
  BY DEF Inv, UserInv, Continues, Signing
<1>6. Apart({{"signup"}}) =>
        \A s \in Thread : pc'[s] \in {"naming", "linking"} => {m \in Name : user'[m] = acc'[s]} = {}
  <2>1. SUFFICES ASSUME Apart({{"signup"}}), NEW s \in Thread, pc'[s] \in {"naming", "linking"}
                 PROVE  {m \in Name : user'[m] = acc'[s]} = {}
    OBVIOUS
  <2>2. pc[s] \in {"naming", "linking"} /\ acc'[s] = acc[s]
    BY <2>1 DEF Continues
  <2>3. Users(acc[s]) = {} /\ acc[s] \in Account /\ op[s] = "signup" /\ of[acc[s]] = who[s]
    BY <2>1, <2>2 DEF Inv, UserInv, Base, RequestInv, TableType, Does, Owns
  <2>4. CASE v = Unlinked
    BY <1>1, <2>2, <2>3, <2>4, RegistrationAssumption DEF Users
  <2>5. CASE v = acc[t] /\ pc'[t] = "idle"
    <3>1. s # t
      BY <2>1, <2>5
    <3>2. acc[s] # acc[t]
      <4>1. SUFFICES ASSUME acc[s] = acc[t] PROVE FALSE
        OBVIOUS
      <4>2. {op[s], op[t]} \notin apart
        BY <1>1, <2>2, <2>3, <3>1, <4>1, Overlap
      <4>3. {op[s], op[t]} = {"signup"}
        BY <1>1, <2>3
      <4>4. QED BY <2>1, <4>2, <4>3 DEF Apart
    <3>3. QED BY <1>1, <2>2, <2>3, <2>5, <3>2 DEF Users
  <2>6. QED BY <2>4, <2>5
<1>7. OneUser'
  <2>1. SUFFICES ASSUME Apart({{"signup"}}), NEW l \in Name, NEW m \in Name, user'[l] = user'[m],
                        user'[l] \in live
                 PROVE  l = m
    BY <1>1 DEF OneUser, Apart
  <2>2. CASE v = Unlinked
    <3>1. l # n /\ m # n
      BY <1>1, <2>1, <2>2, RegistrationAssumption
    <3>2. user[l] = user[m] /\ user[l] \in live
      BY <1>1, <2>1, <3>1
    <3>3. QED BY <2>1, <3>2 DEF Inv, UserInv, OneUser, Apart
  <2>3. CASE v = acc[t] /\ pc[t] = "linking"
    <3>1. Users(acc[t]) = {}
      BY <2>1, <2>3 DEF Inv, UserInv
    <3>2. CASE l = n
      BY <1>1, <2>1, <2>3, <3>1, <3>2 DEF Users
    <3>3. CASE m = n
      BY <1>1, <2>1, <2>3, <3>1, <3>3 DEF Users
    <3>4. CASE l # n /\ m # n
      <4>1. user[l] = user[m] /\ user[l] \in live
        BY <1>1, <2>1, <3>4
      <4>2. QED BY <2>1, <4>1 DEF Inv, UserInv, OneUser, Apart
    <3>5. QED BY <3>2, <3>3, <3>4
  <2>4. QED BY <2>2, <2>3
<1>8. UnlinkedForAReason'
  <2>1. SUFFICES ASSUME {{"signup", "died"}, {"signup", "unregister"}} \subseteq apart,
                        NEW m \in Name, user'[m] = Unlinked
                 PROVE  \E s \in Thread : pc'[s] = "linking" /\ m \in mem'[s]
    BY <1>1 DEF UnlinkedForAReason, At
  <2>2. CASE m = n
    <3>1. v = Unlinked
      BY <1>1, <2>1, <2>2
    <3>2. acc[t] # Unlinked
      BY <1>1, RegistrationAssumption
    <3>3. QED BY <2>2, <3>1, <3>2
  <2>3. CASE m # n
    <3>1. user[m] = Unlinked
      BY <1>1, <2>1, <2>3
    <3>2. PICK s \in Thread : pc[s] = "linking" /\ m \in mem[s]
      BY <2>1, <3>1 DEF Inv, UserInv, UnlinkedForAReason, At
    <3>3. s # t
      BY <2>3, <3>2
    <3>4. QED BY <3>2, <3>3 DEF Continues
  <2>4. QED BY <2>2, <2>3
<1>9. Apart({{"signup", "unregister"}}) =>
        \A s \in Thread : pc'[s] \in Signing => acc'[s] \in live
  BY DEF Inv, UserInv, Continues, Signing
<1>10. UserInv'
  BY <1>1, <1>5, <1>6, <1>7, <1>8, <1>9 DEF UserInv, Users, Apart, Signing
<1>11. QED BY <1>2, <1>3, <1>4, <1>10 DEF Inv

LEMMA CreateUserKeeps ==
  ASSUME Inv, NEW t \in Thread, CreateUser(t)
  PROVE  Inv'
<1>1. pc[t] = "naming" /\ UNCHANGED <<live, of, gone, wish>>
  BY DEF CreateUser, At
<1>2. PICK n \in Name : mem[t] = {n}
  BY <1>1 DEF Inv, UserInv, Signing
<1>3. op[t] = "signup" /\ RequestInv /\ RequestType
  BY <1>1 DEF Inv, Base, RequestInv, Does
<1>4. ASSUME user' = [user EXCEPT ![n] = Unlinked], pc' = [pc EXCEPT ![t] = "linking"],
             mem' = [s \in Thread |-> IF At(s, "deleting") THEN mem[s] \ {n} ELSE mem[s]],
             UNCHANGED <<op, who, acc, apart>>
      PROVE  Inv'
  <2>1. "linking" \in Statement
    BY DEF Statement
  <2>2. /\ pc'[t] = "linking" /\ \A s \in Thread : s # t => pc'[s] = pc[s]
        /\ mem'[t] = {n} /\ \A s \in Thread : pc[s] # "deleting" => mem'[s] = mem[s]
    BY <1>1, <1>2, <1>3, <1>4 DEF RequestType, At
  <2>3. RequestType'
    BY <1>3, <1>4, <2>1 DEF RequestType
  <2>4. Continues(t)
    BY <1>1, <1>4, <2>2 DEF Continues
  <2>5. Does(op'[t], pc'[t])
    BY <1>3, <1>4, <2>2 DEF Does
  <2>6. RequestInv'
    BY <1>3, <2>3, <2>4, <2>5, ContinueKeeps
  <2>7. QED BY <1>1, <1>2, <1>4, <2>2, <2>4, <2>6, WriteUser
<1>5. ASSUME UNCHANGED user, End(t) PROVE Inv'
  BY <1>1, <1>5, EndKeeps DEF tables
<1>6. \A m \in mem[t] \cap Name : m = n
  BY <1>2
<1>7. QED BY <1>4, <1>5, <1>6 DEF CreateUser

LEMMA LinkUserKeeps ==
  ASSUME Inv, NEW t \in Thread, LinkUser(t)
  PROVE  Inv'
<1>1. pc[t] = "linking" /\ End(t) /\ UNCHANGED <<live, of, gone, wish>>
  BY DEF LinkUser, At
<1>2. PICK n \in Name : mem[t] = {n}
  BY <1>1 DEF Inv, UserInv, Signing
<1>3. user' = IF acc[t] \in live THEN [user EXCEPT ![n] = acc[t]] ELSE user
  BY <1>2 DEF LinkUser
<1>4. RequestInv' /\ Continues(t) /\ pc'[t] = "idle"
  BY <1>1, EndFacts DEF Inv, Base
<1>5. CASE acc[t] \in live
  BY <1>1, <1>2, <1>3, <1>4, <1>5, WriteUser
<1>6. ASSUME acc[t] \notin live PROVE Inv'
  <2>1. UNCHANGED <<live, of, gone, user, wish>>
    BY <1>1, <1>3, <1>6
  <2>2. ~Apart({{"signup", "unregister"}})
    BY <1>1, <1>6 DEF Inv, UserInv, Signing
  <2>3. Base'
    <3>1. TableType'
      BY <2>1 DEF Inv, Base, TableType
    <3>2. \A s \in Thread : Owns(s)'
      BY <1>4, <2>1, OwnsKept DEF Inv, Base
    <3>3. QED BY <1>4, <3>1, <3>2 DEF Base
  <2>4. AccountInv'
    BY <1>4, <2>1, AccountKept
  <2>5. WishInv'
    BY <1>4, <2>1, <2>3, WishesKept DEF Wishes
  <2>6. UserInv'
    <3>1. apart' = apart
      BY <1>4 DEF Continues
    <3>2. OneUser' /\ UnlinkedForAReason'
      BY <2>1, <2>2, <3>1 DEF Inv, UserInv, OneUser, UnlinkedForAReason, Apart
    <3>3. \A s \in Thread : pc'[s] \in Signing => \E m \in Name : mem'[s] = {m}
      BY <1>4 DEF Inv, UserInv, Continues, Signing
    <3>4. Apart({{"signup"}}) =>
            \A s \in Thread : pc'[s] \in {"naming", "linking"} => {m \in Name : user'[m] = acc'[s]} = {}
      BY <1>4, <2>1 DEF Inv, UserInv, Users, Continues
    <3>5. QED BY <2>2, <3>1, <3>2, <3>3, <3>4 DEF UserInv, Users, Apart, Signing
  <2>7. QED BY <2>3, <2>4, <2>5, <2>6 DEF Inv
<1>7. QED BY <1>5, <1>6

-----------------------------------------------------------------------------

LEMMA StepKeeps ==
  ASSUME Inv, NEW t \in Thread, Step(t)
  PROVE  Inv'
<1>1. CASE DeleteFails(t)
  <2>1. pc[t] = "deleting" /\ End(t) /\ UNCHANGED tables
    BY <1>1 DEF DeleteFails, At
  <2>2. QED BY <2>1, EndKeeps
<1>2. QED
  BY <1>1, CreateKeeps, CollectKeeps, DeleteKeeps, SaveRowKeeps, LookKeeps, CreateWishKeeps,
     ResaveKeeps, RemoveWishKeeps, FindKeyKeeps, CheckUserKeeps, CreateUserKeeps, LinkUserKeeps,
     DieKeeps DEF Step

LEMMA StutterKeeps ==
  ASSUME Inv, UNCHANGED vars
  PROVE  Inv'
<1>1. /\ UNCHANGED <<live, of, gone, user, wish>>
      /\ UNCHANGED <<pc, op, who, acc, mem, apart>>
  BY DEF vars, tables, request
<1>2. Base'
  BY <1>1 DEF Inv, Base, TableType, RequestInv, RequestType, KeptApart, Owns
<1>3. AccountInv'
  BY <1>1 DEF Inv, AccountInv, OneAccount, Apart, Rows
<1>4. UserInv'
  BY <1>1 DEF Inv, UserInv, OneUser, UnlinkedForAReason, Apart, Users, At
<1>5. WishInv'
  BY <1>1 DEF Inv, WishInv, Wishes, WishedOnce, Apart, Alone, Entries
<1>6. QED BY <1>2, <1>3, <1>4, <1>5 DEF Inv

LEMMA InvCorrect == Spec => []Inv
<1>1. Init => Inv
  BY InvInit
<1>2. Inv /\ [Next]_vars => Inv'
  BY BeginAnyKeeps, StepKeeps, StutterKeeps DEF Next
<1>3. QED BY <1>1, <1>2, PTL DEF Spec

\* Type correctness of the tables and requests: no user is linked to, and no wish
\* belongs to, an account that was deleted.
THEOREM TypeCorrect == Spec => []TypeOK
<1>1. Inv => TypeOK
  BY TypeParts DEF Inv, Base, RequestInv
<1>2. QED BY <1>1, InvCorrect, PTL

\* A console has one account, whatever registers, unregisters and dies, if its
\* first requests do not overlap, nor a purchase and Unregister.
THEOREM AccountsCorrect == Spec => []OneAccount
<1>1. Inv => OneAccount
  BY DEF Inv, AccountInv
<1>2. QED BY <1>1, InvCorrect, PTL

\* A console has one web user if its sign-ups do not overlap, and a user is left
\* without a console only by a sign-up that died or overlapped Unregister.
THEOREM UsersCorrect == Spec => [](OneUser /\ UnlinkedForAReason)
<1>1. Inv => OneUser /\ UnlinkedForAReason
  BY DEF Inv, UserInv
<1>2. QED BY <1>1, InvCorrect, PTL

\* A title is once on a wishlist if requests to put it there do not overlap.
THEOREM WishesCorrect == Spec => []WishedOnce
<1>1. Inv => WishedOnce
  BY DEF Inv, WishInv
<1>2. QED BY <1>1, InvCorrect, PTL
=============================================================================
