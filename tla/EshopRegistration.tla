---------------------------- MODULE EshopRegistration ----------------------------
(***************************************************************************)
(* The accounts of consoles in the eShop, and what hangs on them: they are *)
(* made by the first GetAccountStatus of a console (eshop/ecs.py), deleted *)
(* by Unregister (eshop/ias.py), linked to a web user by the sign-up page, *)
(* and have a wishlist that the console and the web pages edit             *)
(* (eshop/api/views.py, eshop/webui/views.py).                             *)
(*                                                                         *)
(* One action per SQL statement, as in EshopAccount.  Nothing in the       *)
(* schema makes a console id, a link or a wish unique; a user name is.     *)
(* Foreign keys are checked by the database.  Titles owned, votes and      *)
(* custom title ids hang on an account as wishes do.  What a request       *)
(* answers is left out, as are requests that only read.                    *)
(***************************************************************************)
EXTENDS FiniteSets

CONSTANTS Console,   \* console ids
          Account,   \* primary keys of Client3DS; bound: each is given out once
          NoAccount, \* no primary key
          Name,      \* user names of the web pages
          NoUser,    \* no user has this name
          Unlinked,  \* linked_ds = NULL
          Title,     \* what can be wished for
          Entry,     \* rows of wishlistedTitle; bound: a deleted one is reused
          NoWish,    \* no such row
          Thread,    \* requests that can be in progress at once
          Settings   \* the values of apart

Handler == {"status", "unregister", "save", "put", "add", "remove", "signup"}

ASSUME RegistrationAssumption ==
  /\ NoAccount \notin Account /\ {NoUser, Unlinked} \cap Account = {} /\ NoUser # Unlinked
  /\ NoWish \notin Account \X Title
  /\ Settings \subseteq SUBSET SUBSET (Handler \cup {"died"})
ASSUME NamesAssumption == Name \cap (Title \cup Entry) = {} /\ Title \cap Entry = {}

VARIABLES live,  \* the accounts in Client3DS
          of,    \* their consoleid
          gone,  \* the accounts that were ever deleted
          user,  \* by name: linked_ds of the web user
          wish,  \* wishlistedTitle: the account and the title
          pc,    \* the statement each request is at
          op,    \* its handler
          who,   \* its console
          acc,   \* the account that it read
          mem,   \* what else it holds: a name, a title, a row, the users it found
          apart  \* the pairs of handlers that no console has in progress together,
                 \* and {o, "died"} if a request of o never dies; fixed

request == <<pc, op, who, acc, mem>>
tables == <<live, of, gone, user, wish>>
vars == <<tables, request, apart>>

Init ==
  /\ live = {} /\ gone = {}
  /\ of \in {[a \in Account |-> c] : c \in Console}
  /\ user = [n \in Name |-> NoUser]
  /\ wish = [e \in Entry |-> NoWish]
  /\ pc = [t \in Thread |-> "idle"]
  /\ op = [t \in Thread |-> "none"]
  /\ who \in {[t \in Thread |-> c] : c \in Console}
  /\ acc = [t \in Thread |-> NoAccount]
  /\ mem = [t \in Thread |-> {}]
  /\ apart \in Settings

At(t, step) == pc[t] = step

Rows(c) == {a \in live : of[a] = c}
Users(a) == {n \in Name : user[n] = a}
Entries(a, x) == {e \in Entry : wish[e] = <<a, x>>}

\* A request of handler o, about console c, begins with its first statement.
Begin(t, o, c, a, m, step) ==
  /\ At(t, "idle")
  /\ \A s \in Thread : ~At(s, "idle") /\ who[s] = c => {o, op[s]} \notin apart
  /\ pc' = [pc EXCEPT ![t] = step]
  /\ op' = [op EXCEPT ![t] = o]
  /\ who' = [who EXCEPT ![t] = c]
  /\ acc' = [acc EXCEPT ![t] = a]
  /\ mem' = [mem EXCEPT ![t] = m]
  /\ UNCHANGED <<tables, apart>>

Goto(t, step) ==
  /\ pc' = [pc EXCEPT ![t] = step]
  /\ UNCHANGED <<op, who, acc, mem, apart>>

Hold(t, step, m) ==
  /\ pc' = [pc EXCEPT ![t] = step]
  /\ mem' = [mem EXCEPT ![t] = m]
  /\ UNCHANGED <<op, who, acc, apart>>

\* The request is over and leaves nothing behind.
End(t) ==
  /\ pc' = [pc EXCEPT ![t] = "idle"]
  /\ op' = [op EXCEPT ![t] = "none"]
  /\ acc' = [acc EXCEPT ![t] = NoAccount]
  /\ mem' = [mem EXCEPT ![t] = {}]
  /\ UNCHANGED <<who, apart>>

\* The handlers about a console take the one row of its id, and raise if there
\* are two; those of the web pages take the account of the user.
ByConsole(c, a) == Rows(c) = {a}
ByUser(c, a) == a \in live /\ of[a] = c /\ Users(a) # {}

-----------------------------------------------------------------------------
(* GetAccountStatus and Unregister *)

\* Mutant of Missing: no look for an account.
MissingAlways(c) == TRUE

Missing(c) == Rows(c) = {}

\* With one row there is nothing more to write; two raise.
BeginStatus(t, c) == Missing(c) /\ Begin(t, "status", c, NoAccount, {}, "creating")

\* The keys that were never given out.
Fresh == Account \ (live \cup gone)

\* Client3DS.objects.create.
Create(t) ==
  /\ At(t, "creating")
  /\ \E a \in Fresh : /\ live' = live \cup {a}
                      /\ of' = [of EXCEPT ![a] = who[t]]
  /\ End(t)
  /\ UNCHANGED <<gone, user, wish>>

\* The AccountId of the request is the one of the row, or it ends here.
BeginUnregister(t, c) ==
  \E a \in live : ByConsole(c, a) /\ Begin(t, "unregister", c, a, {}, "collecting")

\* ds.delete() first finds the web users, which have rows of their own to go ...
Collect(t) ==
  /\ At(t, "collecting")
  /\ Hold(t, "deleting", Users(acc[t]))
  /\ UNCHANGED tables

\* Mutant of Found: foreign keys are not checked.
FoundAlways(t) == TRUE

\* No user was linked since.
Found(t) == Users(acc[t]) \subseteq mem[t]

\* ... and then deletes all in a transaction.
Delete(t) ==
  /\ At(t, "deleting")
  /\ Found(t)
  /\ live' = live \ {acc[t]}
  /\ gone' = gone \cup {acc[t]}
  /\ user' = [n \in Name |-> IF n \in mem[t] /\ user[n] = acc[t] THEN NoUser ELSE user[n]]
  /\ wish' = [e \in Entry |-> IF \E x \in Title : wish[e] = <<acc[t], x>> THEN NoWish ELSE wish[e]]
  /\ End(t)
  /\ UNCHANGED of

\* The database refuses.
DeleteFails(t) ==
  /\ At(t, "deleting")
  /\ ~Found(t)
  /\ End(t)
  /\ UNCHANGED tables

-----------------------------------------------------------------------------
(* Purchases, prepaid cards and certificates, here for their ds.save() *)

BeginSave(t, c) ==
  \E a \in live : /\ ByConsole(c, a) \/ ByUser(c, a)
                  /\ Begin(t, "save", c, a, {}, "saving")

\* Django updates the row, and inserts it if there is none.
SaveRow(t) ==
  /\ At(t, "saving")
  /\ live' = live \cup {acc[t]}
  /\ End(t)
  /\ UNCHANGED <<of, gone, user, wish>>

-----------------------------------------------------------------------------
(* put_wishlist and delete_wishlist; add_wishlist and remove_wishlist of    *)
(* the web pages                                                            *)

BeginWish(t, c, x) ==
  \E a \in live :
    \/ ByConsole(c, a) /\ Begin(t, "put", c, a, {x}, "looking")
    \/ ByUser(c, a) /\ Begin(t, "add", c, a, {x}, "looking")
    \/ (ByConsole(c, a) \/ ByUser(c, a)) /\ Begin(t, "remove", c, a, {x}, "looking")

\* Mutant of Listed: an entry is not seen.
ListedNever(a, x) == {}

Listed(a, x) == Entries(a, x)

\* wishlistedTitle.objects.get, which raises if there are two.
Look(t) ==
  /\ At(t, "looking")
  /\ \E x \in mem[t] \cap Title :
       LET es == Listed(acc[t], x) IN
       \/ op[t] # "remove" /\ es = {} /\ Goto(t, "wishing")
       \/ op[t] # "remove" /\ es # {} /\ End(t)
       \/ op[t] = "remove" /\ \E e \in es : es = {e} /\ Hold(t, "unwishing", {e})
       \/ op[t] = "remove" /\ (\A e \in es : es # {e}) /\ End(t)
  /\ UNCHANGED tables

Spare == {e \in Entry : wish[e] = NoWish /\ \A t \in Thread : e \notin mem[t]}

\* wishlistedTitle.objects.create, refused when the account is gone.
CreateWish(t) ==
  /\ At(t, "wishing")
  /\ IF acc[t] \in live
     THEN \E x \in mem[t] \cap Title, e \in Spare :
            /\ wish' = [wish EXCEPT ![e] = <<acc[t], x>>]
            /\ IF op[t] = "put" THEN Hold(t, "resaving", {x, e}) ELSE End(t)
     ELSE UNCHANGED wish /\ End(t)
  /\ UNCHANGED <<live, of, gone, user>>

\* put_wishlist saves its new row once more, which inserts it if it was deleted.
Resave(t) ==
  /\ At(t, "resaving")
  /\ \E x \in mem[t] \cap Title, e \in mem[t] \cap Entry :
       wish' = IF acc[t] \in live THEN [wish EXCEPT ![e] = <<acc[t], x>>] ELSE wish
  /\ End(t)
  /\ UNCHANGED <<live, of, gone, user>>

RemoveWish(t) ==
  /\ At(t, "unwishing")
  /\ \E e \in mem[t] \cap Entry : wish' = [wish EXCEPT ![e] = NoWish]
  /\ End(t)
  /\ UNCHANGED <<live, of, gone, user>>

-----------------------------------------------------------------------------
(* register, the sign-up page *)

\* The name is free; the key in the form is the one of a's console.
BeginSignup(t, n, a) ==
  /\ user[n] = NoUser
  /\ a \in live
  /\ Begin(t, "signup", of[a], a, {n}, "keying")

FindKey(t) ==
  /\ At(t, "keying")
  /\ IF acc[t] \in live THEN Goto(t, "checking") ELSE End(t)
  /\ UNCHANGED tables

\* Mutant of Unclaimed: any number of users for a console.
UnclaimedAlways(a) == TRUE

\* User.objects.get(linked_ds=ds) finds none.
Unclaimed(a) == Users(a) = {}

CheckUser(t) ==
  /\ At(t, "checking")
  /\ IF Unclaimed(acc[t]) THEN Goto(t, "naming") ELSE End(t)
  /\ UNCHANGED tables

\* create_user, refused when the name was taken since.  The new row is none of
\* those that an Unregister found, whatever their names.
CreateUser(t) ==
  /\ At(t, "naming")
  /\ \E n \in mem[t] \cap Name :
       IF user[n] = NoUser
       THEN /\ user' = [user EXCEPT ![n] = Unlinked]
            /\ pc' = [pc EXCEPT ![t] = "linking"]
            /\ mem' = [s \in Thread |-> IF At(s, "deleting") THEN mem[s] \ {n} ELSE mem[s]]
            /\ UNCHANGED <<op, who, acc, apart>>
       ELSE UNCHANGED user /\ End(t)
  /\ UNCHANGED <<live, of, gone, wish>>

\* Mutant of LinkUser: the link is not saved.
LinkNobody(t) ==
  /\ At(t, "linking")
  /\ End(t)
  /\ UNCHANGED tables

\* user.save() with linked_ds set, refused when the account is gone.
LinkUser(t) ==
  /\ At(t, "linking")
  /\ \E n \in mem[t] \cap Name :
       user' = IF acc[t] \in live THEN [user EXCEPT ![n] = acc[t]] ELSE user
  /\ End(t)
  /\ UNCHANGED <<live, of, gone, wish>>

-----------------------------------------------------------------------------

\* The request dies: an exception of the database, or the server stops.
Die(t) ==
  /\ ~At(t, "idle")
  /\ {op[t], "died"} \notin apart
  /\ End(t)
  /\ UNCHANGED tables

Step(t) ==
  \/ Create(t) \/ Collect(t) \/ Delete(t) \/ DeleteFails(t) \/ SaveRow(t)
  \/ Look(t) \/ CreateWish(t) \/ Resave(t) \/ RemoveWish(t)
  \/ FindKey(t) \/ CheckUser(t) \/ CreateUser(t) \/ LinkUser(t)
  \/ Die(t)

BeginAny(t) ==
  \/ \E c \in Console : BeginStatus(t, c) \/ BeginUnregister(t, c) \/ BeginSave(t, c)
  \/ \E c \in Console, x \in Title : BeginWish(t, c, x)
  \/ \E n \in Name, a \in Account : BeginSignup(t, n, a)

Next == \E t \in Thread : BeginAny(t) \/ Step(t)

Spec == Init /\ [][Next]_vars

-----------------------------------------------------------------------------
(* Properties *)

Statement == {"idle", "creating", "collecting", "deleting", "saving", "looking", "wishing",
              "resaving", "unwishing", "keying", "checking", "naming", "linking"}

\* Type correctness of the tables and the requests, foreign keys included:
\* whoever is linked, and whatever is wished, belongs to an account that exists.
TypeOK ==
  /\ live \subseteq Account /\ gone \subseteq Account
  /\ of \in [Account -> Console]
  /\ user \in [Name -> live \cup {NoUser, Unlinked}]
  /\ wish \in [Entry -> (live \X Title) \cup {NoWish}]
  /\ pc \in [Thread -> Statement]
  /\ op \in [Thread -> Handler \cup {"none"}]
  /\ who \in [Thread -> Console]
  /\ acc \in [Thread -> Account \cup {NoAccount}]
  /\ mem \in [Thread -> SUBSET (Name \cup Title \cup Entry)]
  /\ apart \in Settings

\* A console has one account, which its every request looks up by console id,
\* if no two first requests of it overlap, and no purchase and Unregister do.
OneAccount ==
  {{"status"}, {"save", "unregister"}} \subseteq apart =>
    \A a, b \in live : of[a] = of[b] => a = b

\* A console has one web user, as the sign-up page says, if no two sign-ups for
\* it overlap, whatever else does.
OneUser ==
  {"signup"} \in apart =>
    \A m, n \in Name : user[m] = user[n] /\ user[m] \in live => m = n

\* A web user without a console, whom every page turns away, is one whose sign-up
\* is in progress, if none dies or overlaps Unregister.
UnlinkedForAReason ==
  {{"signup", "died"}, {"signup", "unregister"}} \subseteq apart =>
    \A n \in Name :
      user[n] = Unlinked => \E t \in Thread : At(t, "linking") /\ n \in mem[t]

\* A title is once on a wishlist, as every query for it expects, if no two
\* requests to put it there overlap: neither one that dies, nor the row that
\* put_wishlist saves once more, makes it two.
WishedOnce ==
  {{"put"}, {"add"}, {"put", "add"}} \subseteq apart =>
    \A d, e \in Entry : wish[d] = wish[e] /\ wish[d] # NoWish => d = e
=============================================================================
