----------------------------- MODULE AccessProofs -----------------------------
(***************************************************************************)
(* Theorems about Admins and Accounts, for any admins, users, requests,    *)
(* processes, times and crashes.  Of the admins: an installation keeps an  *)
(* owner, and the guards of the way in hold, the lockout's limit and the   *)
(* setup that is answered once.  Of the users: what was used up or refused *)
(* lets nobody in again, and no two accounts share an address.             *)
(***************************************************************************)
EXTENDS MCAccess, FiniteSetTheorems, TLAPS

-----------------------------------------------------------------------------
(* What the handlers of Admins have still to do *)

Steps ==
  [op : {"add"}, admin : Admins, role : Roles]
    \cup [op : {"drop", "back", "only", "stamp", "fail", "forgive"}, admin : Admins]
    \cup [op : {"role"}, admin : Admins, role : Roles, was : Roles]
    \cup [op : {"bump"}, admins : SUBSET Admins]
    \cup [op : {"record"}, admin : Admins, iat : Nat]
    \cup [op : {"void"}, session : Nat]
    \cup [op : {"create"}, me : Admins, admin : Admins, role : Roles]
    \cup [op : {"patch"}, me : Admins, admin : Admins, role : Roles, pw : BOOLEAN]
    \cup [op : {"demote"}, mine : Roles, admin : Admins, role : Roles, was : Roles]
    \cup [op : {"delete"}, me : Admins, admin : Admins]

(* A statement, or two that belong together, and the same after an await.  *)
Piece(q) ==
  \/ \E s \in Steps : q = <<s>>
  \/ \E a \in Admins : q = <<AddAdmin(a, "owner"), OnlyOne(a)>>
  \/ \E a \in Admins : q = <<Forgive(a), Stamp(a)>>
Later(q) ==
  \/ \E s \in Steps : q = <<Await, s>> /\ s.op \notin {"only", "back", "drop", "role"}
  \/ \E a \in Admins : q = <<Await, AddAdmin(a, "owner"), OnlyOne(a)>>
  \/ \E a \in Admins : q = <<Await, Forgive(a), Stamp(a)>>
Plan(q) == q = <<>> \/ Piece(q) \/ Later(q)

Mentions(q, ops, a) == \E n \in DOMAIN q : q[n].op \in ops /\ q[n].admin = a

Adds == {"add", "create"}
Claims == {"add", "create", "only", "back"}

LoopInv ==
  /\ todo \in [Requests -> Seq(Steps \cup {Await})]
  /\ turn \in [Procs -> SUBSET Requests]
  /\ \A r \in Requests : Plan(todo[r])
  /\ \A r \in Requests : Piece(todo[r]) => r \in turn[Home[r]]
  /\ \A a \in Admins, r, s \in Requests :
       Mentions(todo[r], Claims, a) /\ Mentions(todo[s], Claims, a) => r = s

Done(a) == {<<OnlyOne(a)>>, <<TakeBack(a)>>, <<DropAdmin(a)>>}
RowsInv ==
  /\ admins \in [Admins -> [in : {"no", "yes", "gone"}, role : Roles, resetAt : Nat]]
  /\ \A a \in Admins, r \in Requests :
       /\ Mentions(todo[r], Adds, a) => admins[a].in = "no"
       /\ todo[r] \in Done(a) => admins[a].in # "no"

AdminsInv ==
  /\ LoopInv /\ RowsInv
  /\ failures \in [Admins -> Seq(Nat)]
  /\ sessions \in Seq([admin : Admins, iat : Nat, exp : Nat, revoked : BOOLEAN])
  /\ setups \in SUBSET Requests
  /\ now \in Nat

LEMMA MentionsIs ==
  ASSUME NEW s, NEW t, NEW u, NEW ops, NEW a
  PROVE  /\ ~ Mentions(<<>>, ops, a)
         /\ Mentions(<<s>>, ops, a) <=> s.op \in ops /\ s.admin = a
         /\ Mentions(<<s, t>>, ops, a) <=>
              (s.op \in ops /\ s.admin = a) \/ (t.op \in ops /\ t.admin = a)
         /\ Mentions(<<s, t, u>>, ops, a) <=>
              \/ s.op \in ops /\ s.admin = a
              \/ t.op \in ops /\ t.admin = a
              \/ u.op \in ops /\ u.admin = a
  BY DEF Mentions

LEMMA AwaitMentions ==
  ASSUME NEW s, NEW t, NEW ops, NEW a, "await" \notin ops
  PROVE  /\ Mentions(<<Await, s>>, ops, a) <=> Mentions(<<s>>, ops, a)
         /\ Mentions(<<Await, s, t>>, ops, a) <=> Mentions(<<s, t>>, ops, a)
<1>1. ASSUME NEW w, w.op = "await"
      PROVE  /\ Mentions(<<w, s>>, ops, a) <=> Mentions(<<s>>, ops, a)
             /\ Mentions(<<w, s, t>>, ops, a) <=> Mentions(<<s, t>>, ops, a)
  BY <1>1 DEF Mentions
<1>2. Await.op = "await"
  BY DEF Await
<1> QED
  BY <1>1, <1>2

LEMMA DoneIs ==
  ASSUME NEW q, NEW a, q \in Done(a)
  PROVE  Len(q) = 1 /\ q[1].op \in {"only", "back", "drop"} /\ q[1].admin = a
  BY DEF Done, OnlyOne, TakeBack, DropAdmin

LEMMA StepsAre ==
  ASSUME NEW s \in Steps
  PROVE  s.op # "await" /\ s # Await
  BY DEF Steps, Await

(* The statements of a plan, in a type.                                    *)
LEMMA PlanTyped ==
  ASSUME NEW q, Plan(q)
  PROVE  q \in Seq(Steps \cup {Await})
<1>1. \A a \in Admins : /\ AddAdmin(a, "owner") \in Steps /\ OnlyOne(a) \in Steps
                        /\ Forgive(a) \in Steps /\ Stamp(a) \in Steps
  BY DEF AddAdmin, OnlyOne, Forgive, Stamp, Steps, Roles
<1> DEFINE T == Steps \cup {Await}
<1>2. \A x \in T : <<x>> \in Seq(T)
  OBVIOUS
<1>3. \A x, y \in T : <<x, y>> \in Seq(T)
  OBVIOUS
<1>4. \A x, y, z \in T : <<x, y, z>> \in Seq(T)
  OBVIOUS
<1>5. \A x \in Steps : x \in T
  OBVIOUS
<1>6. Await \in T /\ <<>> \in Seq(T)
  OBVIOUS
<1> HIDE DEF T
<1>7. q \in Seq(T)
  BY <1>1, <1>2, <1>3, <1>4, <1>5, <1>6 DEF Plan, Piece, Later
<1> QED
  BY <1>7 DEF T

(* What a statement that is no await leaves of a plan.                     *)
LEMMA PlanHead ==
  ASSUME NEW q, Plan(q), q # <<>>, Head(q).op # "await"
  PROVE  /\ Piece(q) /\ Head(q) \in Steps
         /\ \/ q = <<Head(q)>> /\ Tail(q) = <<>>
            \/ \E a \in Admins : /\ q = <<AddAdmin(a, "owner"), OnlyOne(a)>>
                                 /\ Head(q) = AddAdmin(a, "owner") /\ Tail(q) = <<OnlyOne(a)>>
            \/ \E a \in Admins : /\ q = <<Forgive(a), Stamp(a)>>
                                 /\ Head(q) = Forgive(a) /\ Tail(q) = <<Stamp(a)>>
<1>1. \A a \in Admins : AddAdmin(a, "owner") \in Steps /\ Forgive(a) \in Steps
  BY DEF AddAdmin, Forgive, Steps, Roles
<1>2. ~ Later(q)
  BY DEF Later, Await
<1>3. Piece(q)
  BY <1>2 DEF Plan
<1>4. CASE \E s \in Steps : q = <<s>>
  BY <1>3, <1>4
<1>5. CASE \E a \in Admins : q = <<AddAdmin(a, "owner"), OnlyOne(a)>>
  BY <1>1, <1>3, <1>5
<1>6. CASE \E a \in Admins : q = <<Forgive(a), Stamp(a)>>
  BY <1>1, <1>3, <1>6
<1> QED
  BY <1>3, <1>4, <1>5, <1>6 DEF Piece

(* What an await leaves of it.                                             *)
LEMMA PlanAwait ==
  ASSUME NEW q, Plan(q), q # <<>>, Head(q).op = "await"
  PROVE  /\ Later(q) /\ Piece(Tail(q)) /\ q \notin UNION {Done(a) : a \in Admins}
         /\ \A ops, a : ops \subseteq Adds \cup Claims =>
              (Mentions(q, ops, a) <=> Mentions(Tail(q), ops, a))
<1>1. \A a \in Admins : AddAdmin(a, "owner").op # "await" /\ Forgive(a).op # "await"
  BY DEF AddAdmin, Forgive
<1>2. Later(q)
  BY <1>1, StepsAre DEF Plan, Piece
<1>3. \A ops : ops \subseteq Adds \cup Claims => "await" \notin ops
  BY DEF Adds, Claims
<1>4. q \notin UNION {Done(a) : a \in Admins}
  BY DEF Done, OnlyOne, TakeBack, DropAdmin
<1>5. CASE \E s \in Steps : q = <<Await, s>> /\ s.op \notin {"only", "back", "drop", "role"}
  <2>1. PICK s \in Steps : q = <<Await, s>>
    BY <1>5
  <2>2. Tail(q) = <<s>>
    BY <2>1
  <2>3. \A ops, a : ops \subseteq Adds \cup Claims =>
          (Mentions(<<Await, s>>, ops, a) <=> Mentions(<<s>>, ops, a))
    BY <1>3, AwaitMentions
  <2> QED
    BY <1>2, <1>4, <2>1, <2>2, <2>3 DEF Piece
<1>6. CASE \E a \in Admins : q = <<Await, AddAdmin(a, "owner"), OnlyOne(a)>>
  <2>1. PICK b \in Admins : q = <<Await, AddAdmin(b, "owner"), OnlyOne(b)>>
    BY <1>6
  <2>2. Tail(q) = <<AddAdmin(b, "owner"), OnlyOne(b)>>
    BY <2>1
  <2>3. \A ops, a : ops \subseteq Adds \cup Claims =>
          (Mentions(<<Await, AddAdmin(b, "owner"), OnlyOne(b)>>, ops, a) <=> Mentions(<<AddAdmin(b, "owner"), OnlyOne(b)>>, ops, a))
    BY <1>3, AwaitMentions
  <2> QED
    BY <1>2, <1>4, <2>1, <2>2, <2>3 DEF Piece
<1>7. CASE \E a \in Admins : q = <<Await, Forgive(a), Stamp(a)>>
  <2>1. PICK b \in Admins : q = <<Await, Forgive(b), Stamp(b)>>
    BY <1>7
  <2>2. Tail(q) = <<Forgive(b), Stamp(b)>>
    BY <2>1
  <2>3. \A ops, a : ops \subseteq Adds \cup Claims =>
          (Mentions(<<Await, Forgive(b), Stamp(b)>>, ops, a) <=> Mentions(<<Forgive(b), Stamp(b)>>, ops, a))
    BY <1>3, AwaitMentions
  <2> QED
    BY <1>2, <1>4, <2>1, <2>2, <2>3 DEF Piece
<1> QED
  BY <1>2, <1>5, <1>6, <1>7 DEF Later

-----------------------------------------------------------------------------
(* A request that goes on *)

(* Request r is left with `rest`, and claims nothing another claims.       *)
LEMMA LoopLeaves ==
  ASSUME LoopInv, NEW r \in Requests, NEW rest, Plan(rest), Runnable(r), Leaves(r, rest),
         \A a \in Admins : Mentions(rest, Claims, a) =>
           \A s \in Requests \ {r} : ~ Mentions(todo[s], Claims, a)
  PROVE  /\ LoopInv'
         /\ todo'[r] = rest /\ \A s \in Requests \ {r} : todo'[s] = todo[s]
<1>1. Home[r] \in Procs /\ \A s \in Requests : Home[s] \in Procs
  BY LoopAssumption
<1>2. rest \in Seq(Steps \cup {Await})
  BY PlanTyped
<1>3. /\ todo' \in [Requests -> Seq(Steps \cup {Await})]
      /\ todo'[r] = rest /\ \A s \in Requests \ {r} : todo'[s] = todo[s]
  BY <1>2 DEF LoopInv, Leaves
<1>4. PICK t \in {{}, {r}} : turn' = [turn EXCEPT ![Home[r]] = t]
      /\ (t = {} => rest = <<>> \/ Head(rest) = Await)
  BY DEF Leaves
<1>5. turn' \in [Procs -> SUBSET Requests] /\ turn'[Home[r]] = t
      /\ \A p \in Procs : p # Home[r] => turn'[p] = turn[p]
  BY <1>1, <1>4 DEF LoopInv
<1>6. \A s \in Requests : Plan(todo'[s])
  BY <1>3 DEF LoopInv
<1>7. ASSUME NEW s \in Requests, Piece(todo'[s])
      PROVE  s \in turn'[Home[s]]
  <2>1. CASE s = r
    <3>1. rest # <<>> /\ Head(rest) # Await
      <4>1. \A a \in Admins : AddAdmin(a, "owner") # Await /\ Forgive(a) # Await
        BY DEF AddAdmin, Forgive, Await
      <4> QED
        BY <1>3, <1>7, <2>1, <4>1, StepsAre DEF Piece
    <3> QED
      BY <1>4, <1>5, <2>1, <3>1
  <2>2. CASE s # r
    <3>1. s \in turn[Home[s]]
      BY <1>3, <1>7, <2>2 DEF LoopInv
    <3>2. Home[s] # Home[r]
      BY <2>2, <3>1 DEF Runnable
    <3> QED
      BY <1>1, <1>5, <3>1, <3>2
  <2> QED
    BY <2>1, <2>2
<1>8. \A a \in Admins, s, t0 \in Requests :
        Mentions(todo'[s], Claims, a) /\ Mentions(todo'[t0], Claims, a) => s = t0
  BY <1>3 DEF LoopInv
<1>9. LoopInv'
  BY <1>3, <1>5, <1>6, <1>7, <1>8 DEF LoopInv, Mentions
<1> QED
  BY <1>3, <1>9
-----------------------------------------------------------------------------
(* The statements of Admins *)

(* What the rows must not do while others wait.                            *)
LEMMA RowsLeave ==
  ASSUME LoopInv, RowsInv, NEW r \in Requests, NEW rest, todo'[r] = rest,
         \A s \in Requests \ {r} : todo'[s] = todo[s],
         admins' \in [Admins -> [in : {"no", "yes", "gone"}, role : Roles, resetAt : Nat]],
         \A a \in Admins : admins[a].in # "no" => admins'[a].in # "no",
         \A a \in Admins : admins[a].in = "no" /\ admins'[a].in # "no" =>
           Mentions(todo[r], Claims, a) /\ ~ Mentions(rest, Adds, a),
         \A a \in Admins : Mentions(rest, Adds, a) => admins[a].in = "no",
         \A a \in Admins : rest \in Done(a) => admins'[a].in # "no"
  PROVE  RowsInv'
<1>1. ASSUME NEW a \in Admins, NEW s \in Requests, Mentions(todo'[s], Adds, a)
      PROVE  admins'[a].in = "no"
  <2>1. CASE s = r
    BY <1>1, <2>1
  <2>2. CASE s # r
    <3>1. Mentions(todo[s], Adds, a) /\ Mentions(todo[s], Claims, a)
      BY <1>1, <2>2 DEF Mentions, Adds, Claims
    <3>2. admins[a].in = "no"
      BY <3>1 DEF RowsInv
    <3> QED
      BY <2>2, <3>1, <3>2 DEF LoopInv
  <2> QED
    BY <2>1, <2>2
<1>2. ASSUME NEW a \in Admins, NEW s \in Requests, todo'[s] \in Done(a)
      PROVE  admins'[a].in # "no"
  BY <1>2 DEF RowsInv
<1> QED
  BY <1>1, <1>2 DEF RowsInv, Mentions, Done, OnlyOne, TakeBack, DropAdmin, Adds

LEMMA Thens ==
  ASSUME NEW q, Plan(q), q # <<>>, Head(q).op # "await", NEW s, s = Head(q), NEW rest,
         rest = AdminThen(s, Tail(q)),
         admins \in [Admins -> [in : {"no", "yes", "gone"}, role : Roles, resetAt : Nat]],
         now \in Nat
  PROVE  /\ Plan(rest)
         /\ \A a : Mentions(rest, Claims, a) => Mentions(q, Claims, a)
         /\ \A a : Mentions(rest, Adds, a) => s.op = "create" /\ Mentions(q, Adds, a)
         /\ \A a \in Admins : rest \in Done(a) =>
              \/ s.op = "only" /\ q = <<OnlyOne(a)>>
              \/ s.op = "add" /\ s.admin = a
              \/ s.op = "delete" /\ AdminExists(a)
<1>1. /\ Piece(q) /\ s \in Steps
      /\ \/ q = <<s>> /\ Tail(q) = <<>>
         \/ \E a \in Admins : /\ q = <<AddAdmin(a, "owner"), OnlyOne(a)>>
                              /\ s = AddAdmin(a, "owner") /\ Tail(q) = <<OnlyOne(a)>>
         \/ \E a \in Admins : /\ q = <<Forgive(a), Stamp(a)>>
                              /\ s = Forgive(a) /\ Tail(q) = <<Stamp(a)>>
  BY PlanHead
<1>2. s.op \notin {"add", "forgive"} => q = <<s>> /\ Tail(q) = <<>>
  BY <1>1 DEF AddAdmin, Forgive
<1>3. Plan(<<>>) /\ (\A a : ~ Mentions(<<>>, Claims, a) /\ ~ Mentions(<<>>, Adds, a)
                            /\ <<>> \notin Done(a))
  BY DEF Mentions, Plan, Done, Mentions
<1>4. CASE s.op = "only"
  <2>1. s.admin \in Admins /\ s = OnlyOne(s.admin)
    BY <1>1, <1>4 DEF Steps, OnlyOne
  <2>2. rest \in {<<>>, <<TakeBack(s.admin)>>}
    BY <1>4 DEF AdminThen
  <2>3. TakeBack(s.admin) \in Steps
    BY <2>1 DEF Steps, TakeBack
  <2>4. CASE rest = <<TakeBack(s.admin)>>
    <3>1. TakeBack(s.admin).op = "back" /\ TakeBack(s.admin).admin = s.admin
      BY DEF TakeBack
    <3>2. \A a : Mentions(rest, Claims, a) => a = s.admin
      BY <2>4, <3>1 DEF Mentions
    <3>3. \A a : ~ Mentions(rest, Adds, a)
      BY <2>4, <3>1 DEF Adds, Mentions
    <3>4. Mentions(q, Claims, s.admin)
      BY <1>2, <1>4 DEF Claims, Mentions
    <3>5. \A a : rest \in Done(a) => s.admin = a
      BY <2>4, <3>1, DoneIs
    <3> QED
      BY <1>2, <1>4, <2>1, <2>3, <2>4, <3>2, <3>3, <3>4, <3>5 DEF Plan, Piece
  <2> QED
    BY <1>3, <2>2, <2>4
<1>5. CASE s.op = "stamp"
  <2>1. s.admin \in Admins
    BY <1>1, <1>5 DEF Steps
  <2>2. rest = <<Await, Record(s.admin, now)>>
    BY <1>5 DEF AdminThen
  <2>3. Record(s.admin, now) \in Steps /\ Record(s.admin, now).op = "record"
    BY <2>1 DEF Steps, Record
  <2>4. \A a : ~ Mentions(rest, Claims, a) /\ ~ Mentions(rest, Adds, a)
    BY <2>2, <2>3 DEF Claims, Adds, Mentions, Await
  <2>5. \A a : rest \notin Done(a)
    BY <2>2, DoneIs
  <2> QED
    BY <2>2, <2>3, <2>4, <2>5 DEF Plan, Later
<1>6. CASE s.op = "create"
  <2>1. s.admin \in Admins /\ s.role \in Roles
    BY <1>1, <1>6 DEF Steps
  <2>2. rest \in {<<>>, <<Await, AddAdmin(s.admin, s.role)>>}
    BY <1>6 DEF AdminThen
  <2>3. CASE rest = <<Await, AddAdmin(s.admin, s.role)>>
    <3>1. /\ AddAdmin(s.admin, s.role) \in Steps
          /\ AddAdmin(s.admin, s.role).op = "add" /\ AddAdmin(s.admin, s.role).admin = s.admin
      BY <2>1 DEF Steps, AddAdmin
    <3>2. \A a : (Mentions(rest, Claims, a) => a = s.admin) /\ (Mentions(rest, Adds, a) => a = s.admin)
      BY <2>3, <3>1 DEF Claims, Adds, Mentions, Await
    <3>3. Mentions(q, Claims, s.admin) /\ Mentions(q, Adds, s.admin)
      BY <1>2, <1>6 DEF Claims, Adds, Mentions
    <3>4. \A a : rest \notin Done(a)
      BY <2>3, DoneIs
    <3> QED
      BY <1>6, <2>3, <3>1, <3>2, <3>3, <3>4 DEF Plan, Later
  <2> QED
    BY <1>3, <2>2, <2>3
<1>7. CASE s.op = "patch"
  <2> DEFINE d == Demote(admins[s.me].role, s.admin, s.role, admins[s.admin].role)
  <2>1. s.admin \in Admins /\ s.me \in Admins /\ s.role \in Roles
    BY <1>1, <1>7 DEF Steps
  <2>2. rest \in {<<>>, <<Await>> \o <<d>>, <<>> \o <<d>>}
    BY <1>7 DEF AdminThen
  <2>3. admins[s.me].role \in Roles /\ admins[s.admin].role \in Roles
    BY <2>1
  <2>4. d \in Steps /\ d.op = "demote"
    BY <2>1, <2>3 DEF Steps, Demote
  <2> HIDE DEF d
  <2>5. rest \in {<<>>, <<Await, d>>, <<d>>}
    BY <2>2
  <2>6. \A a : ~ Mentions(rest, Claims, a) /\ ~ Mentions(rest, Adds, a)
    BY <1>3, <2>4, <2>5 DEF Claims, Adds, Mentions, Await
  <2>7. \A a : rest \notin Done(a)
    <3>1. ASSUME NEW a, rest \in Done(a)
          PROVE  FALSE
      <4>1. Len(rest) = 1 /\ rest[1].op \in {"only", "back", "drop"}
        BY <3>1, DoneIs
      <4> QED
        BY <2>4, <2>5, <4>1
    <3> QED
      BY <3>1
  <2> QED
    BY <2>4, <2>5, <2>6, <2>7 DEF Plan, Piece, Later
<1>8. CASE s.op = "demote"
  <2> DEFINE d == SetRole(s.admin, s.role, s.was)
  <2>1. s.admin \in Admins /\ s.was \in Roles /\ s.role \in Roles
    BY <1>1, <1>8 DEF Steps
  <2>2. rest \in {<<>>, <<d>>}
    BY <1>8 DEF AdminThen
  <2>4. d \in Steps /\ d.op = "role"
    BY <2>1 DEF Steps, SetRole
  <2> HIDE DEF d
  <2>6. \A a : ~ Mentions(rest, Claims, a) /\ ~ Mentions(rest, Adds, a)
    BY <1>3, <2>2, <2>4 DEF Claims, Adds, Mentions
  <2>7. \A a : rest \notin Done(a)
    BY <1>3, <2>2, <2>4, DoneIs
  <2> QED
    BY <2>2, <2>4, <2>6, <2>7 DEF Plan, Piece
<1>9. CASE s.op = "delete"
  <2>1. s.admin \in Admins
    BY <1>1, <1>9 DEF Steps
  <2>2. rest = <<>> \/ (rest = <<DropAdmin(s.admin)>> /\ AdminExists(s.admin))
    BY <1>9 DEF AdminThen
  <2>4. DropAdmin(s.admin) \in Steps /\ DropAdmin(s.admin).op = "drop"
        /\ DropAdmin(s.admin).admin = s.admin
    BY <2>1 DEF Steps, DropAdmin
  <2>6. \A a : ~ Mentions(rest, Claims, a) /\ ~ Mentions(rest, Adds, a)
    BY <1>3, <2>2, <2>4 DEF Claims, Adds, Mentions
  <2>7. \A a : rest \in Done(a) => a = s.admin /\ AdminExists(a)
    BY <1>3, <2>2, <2>4, DoneIs
  <2> QED
    BY <1>3, <1>9, <2>2, <2>4, <2>6, <2>7 DEF Plan, Piece
<1>10. CASE s.op \notin {"only", "stamp", "create", "patch", "demote", "delete"}
  <2>1. rest = Tail(q)
    BY <1>10 DEF AdminThen
  <2>2. CASE q = <<s>> /\ Tail(q) = <<>>
    BY <1>3, <2>1, <2>2
  <2>3. CASE \E a \in Admins : /\ q = <<AddAdmin(a, "owner"), OnlyOne(a)>>
                               /\ s = AddAdmin(a, "owner") /\ Tail(q) = <<OnlyOne(a)>>
    <3>1. PICK b \in Admins : /\ q = <<AddAdmin(b, "owner"), OnlyOne(b)>>
                              /\ s = AddAdmin(b, "owner") /\ Tail(q) = <<OnlyOne(b)>>
      BY <2>3
    <3>2. OnlyOne(b) \in Steps /\ OnlyOne(b).op = "only" /\ OnlyOne(b).admin = b
      BY DEF Steps, OnlyOne
    <3>3. s.op = "add" /\ s.admin = b
      BY <3>1 DEF AddAdmin
    <3>4. \A a : Mentions(rest, Claims, a) => a = b
      BY <2>1, <3>1, <3>2 DEF Mentions
    <3>5. \A a : ~ Mentions(rest, Adds, a)
      BY <2>1, <3>1, <3>2 DEF Adds, Mentions
    <3>6. Mentions(q, Claims, b)
      BY <3>1, <3>2 DEF Claims, Mentions
    <3>7. \A a : rest \in Done(a) => a = b
      BY <2>1, <3>1, <3>2, DoneIs
    <3> QED
      BY <2>1, <3>1, <3>2, <3>3, <3>4, <3>5, <3>6, <3>7 DEF Plan, Piece
  <2>4. CASE \E a \in Admins : /\ q = <<Forgive(a), Stamp(a)>>
                               /\ s = Forgive(a) /\ Tail(q) = <<Stamp(a)>>
    <3>1. PICK b \in Admins : Tail(q) = <<Stamp(b)>>
      BY <2>4
    <3>2. \E x \in Steps : x.op = "stamp" /\ Tail(q) = <<x>>
      BY <3>1 DEF Steps, Stamp
    <3>3. PICK x \in Steps : x.op = "stamp" /\ rest = <<x>>
      BY <2>1, <3>2
    <3>5. \A a : ~ Mentions(rest, Adds, a) /\ ~ Mentions(rest, Claims, a)
      BY <3>3 DEF Adds, Claims, Mentions
    <3>7. \A a : rest \notin Done(a)
      BY <3>3, DoneIs
    <3> QED
      BY <3>3, <3>5, <3>7 DEF Plan, Piece
  <2> QED
    BY <1>1, <2>2, <2>3, <2>4
<1> QED
  BY <1>4, <1>5, <1>6, <1>7, <1>8, <1>9, <1>10

Rows == [Admins -> [in : {"no", "yes", "gone"}, role : Roles, resetAt : Nat]]

(* What a statement does to the rows.                                      *)
LEMMA RowsAfter ==
  ASSUME NEW s \in Steps, admins \in Rows, now \in Nat, NEW next, next = AdminsAfter(s)
  PROVE  /\ next \in Rows
         /\ \A a \in Admins :
              /\ s.op = "add" /\ s.admin = a => next[a].in = "yes" /\ next[a].role = s.role
              /\ s.op \in {"drop", "back"} /\ s.admin = a =>
                   next[a].in = "gone" /\ next[a].role = admins[a].role
              /\ ~ (s.op \in {"add", "drop", "back"} /\ s.admin = a) =>
                   next[a].in = admins[a].in
              /\ s.op = "role" /\ s.admin = a =>
                   next[a].role = IF admins[a].in = "yes" THEN s.role ELSE admins[a].role
              /\ ~ (s.op \in {"add", "role"} /\ s.admin = a) =>
                   next[a].role = admins[a].role
<1>1. CASE s.op = "add"
  <2>1. s.admin \in Admins /\ s.role \in Roles
    BY <1>1 DEF Steps
  <2>2. next = [admins EXCEPT ![s.admin] = [in |-> "yes", role |-> s.role, resetAt |-> 0]]
    BY <1>1 DEF AdminsAfter
  <2> QED
    BY <1>1, <2>1, <2>2 DEF Rows
<1>2. CASE s.op \in {"drop", "back"}
  <2>1. s.admin \in Admins
    BY <1>2 DEF Steps
  <2>2. next = [admins EXCEPT ![s.admin].in = "gone"]
    BY <1>2 DEF AdminsAfter
  <2> QED
    BY <1>2, <2>1, <2>2 DEF Rows
<1>3. CASE s.op = "role" /\ AdminExists(s.admin)
  <2>1. s.admin \in Admins /\ s.role \in Roles /\ admins[s.admin].in = "yes"
    BY <1>3 DEF Steps, AdminExists
  <2>2. next = [admins EXCEPT ![s.admin].role = s.role]
    BY <1>3 DEF AdminsAfter
  <2> QED
    BY <1>3, <2>1, <2>2 DEF Rows
<1>4. CASE s.op = "bump"
  <2>1. next = [a \in Admins |-> IF a \in s.admins \cap AdminRows
                                  THEN [admins[a] EXCEPT !.resetAt = now] ELSE admins[a]]
    BY <1>4 DEF AdminsAfter
  <2>2. \A a \in Admins : [admins[a] EXCEPT !.resetAt = now]
           \in [in : {admins[a].in}, role : {admins[a].role}, resetAt : {now}]
    BY DEF Rows
  <2>3. \A a \in Admins :
          /\ next[a] \in [in : {"no", "yes", "gone"}, role : Roles, resetAt : Nat]
          /\ next[a].in = admins[a].in /\ next[a].role = admins[a].role
    BY <2>1, <2>2 DEF Rows
  <2> QED
    BY <1>4, <2>1, <2>3 DEF Rows
<1>5. CASE s.op \notin {"add", "drop", "back", "bump"} /\ ~ (s.op = "role" /\ AdminExists(s.admin))
  <2>1. next = admins
    BY <1>5 DEF AdminsAfter
  <2>2. s.op = "role" /\ s.admin \in Admins => admins[s.admin].in # "yes"
    BY <1>5 DEF AdminExists
  <2> QED
    BY <1>5, <2>1, <2>2
<1> QED
  BY <1>1, <1>2, <1>3, <1>4, <1>5

(* A request that is taken up.                                             *)
Opens(r, q) ==
  /\ Begin(r, q) /\ Later(q)
  /\ \A a \in Admins : Mentions(q, Claims, a) => a \in Unused
  /\ UNCHANGED <<adminTables, clockVars>>

LEMMA UnusedFree ==
  ASSUME AdminsInv, NEW a \in Unused, NEW r \in Requests
  PROVE  ~ Mentions(todo[r], Claims, a)
<1> SUFFICES ASSUME Mentions(todo[r], Claims, a)
             PROVE  FALSE
  OBVIOUS
<1>1. a \in Admins /\ admins[a].in = "no" /\ ~ Mentions(todo[r], Adds, a)
  BY DEF Unused, Mentions, Adds
<1>2. PICK n \in DOMAIN todo[r] : todo[r][n].op \in {"only", "back"} /\ todo[r][n].admin = a
  BY <1>1 DEF Mentions, Adds, Claims
<1>3. Plan(todo[r]) /\ todo[r] \notin Done(a)
  BY <1>1 DEF AdminsInv, LoopInv, RowsInv
<1>4. CASE \E s \in Steps : todo[r] = <<s>>
  <2>1. PICK s \in Steps : todo[r] = <<s>>
    BY <1>4
  <2>2. s.op \in {"only", "back"} /\ s.admin = a
    BY <1>2, <2>1
  <2>3. s = OnlyOne(a) \/ s = TakeBack(a)
    BY <2>2 DEF Steps, OnlyOne, TakeBack
  <2> QED
    BY <1>3, <2>1, <2>3 DEF Done
<1>5. CASE \E s \in Steps : todo[r] = <<Await, s>> /\ s.op \notin {"only", "back", "drop", "role"}
  BY <1>2, <1>5 DEF Await
<1>6. CASE \E b \in Admins : \/ todo[r] = <<AddAdmin(b, "owner"), OnlyOne(b)>>
                            \/ todo[r] = <<Await, AddAdmin(b, "owner"), OnlyOne(b)>>
  <2>1. PICK b \in Admins : \/ todo[r] = <<AddAdmin(b, "owner"), OnlyOne(b)>>
                            \/ todo[r] = <<Await, AddAdmin(b, "owner"), OnlyOne(b)>>
    BY <1>6
  <2>2. /\ AddAdmin(b, "owner").op = "add" /\ AddAdmin(b, "owner").admin = b
        /\ OnlyOne(b).op = "only" /\ OnlyOne(b).admin = b /\ Await.op = "await"
    BY DEF AddAdmin, OnlyOne, Await
  <2>3. a = b
    BY <1>2, <2>1, <2>2
  <2> QED
    BY <1>1, <2>1, <2>2, <2>3 DEF Mentions, Adds
<1>7. CASE \E b \in Admins : \/ todo[r] = <<Forgive(b), Stamp(b)>>
                            \/ todo[r] = <<Await, Forgive(b), Stamp(b)>>
  BY <1>2, <1>7 DEF Forgive, Stamp, Await
<1>8. todo[r] # <<>>
  BY <1>2
<1> QED
  BY <1>3, <1>4, <1>5, <1>6, <1>7, <1>8 DEF Plan, Piece, Later

(* A plan of one statement after an await that claims no row, or claims it *)
(* for the first time.                                                     *)
LEMMA OneLater ==
  ASSUME NEW s \in Steps, s.op \notin {"only", "back", "drop", "role"}
  PROVE  /\ Later(<<Await, s>>)
         /\ \A a : Mentions(<<Await, s>>, Claims, a) => s.op \in Adds /\ s.admin = a
  BY DEF Later, Mentions, Claims, Adds, Await

Arrives(r) ==
  \/ Setup(r) \/ SignIns(r, Admins) \/ Management(r, Roles) \/ Credentials(r)
  \/ \E a \in Admins : CommandLine(r, a)

LEMMA ArrivalsOpen ==
  ASSUME AdminsInv, NEW r \in Requests, Arrives(r)
  PROVE  \E q : /\ Opens(r, q)
                /\ \A a \in Admins : q = <<Await, Fail(a)>> => ~ LockedOut(a)
<1> DEFINE Fine(q) == /\ Opens(r, q)
                      /\ \A a \in Admins : q = <<Await, Fail(a)>> => ~ LockedOut(a)
<1>1. ASSUME NEW s \in Steps, s.op \notin {"only", "back", "drop", "role", "fail"},
             AdminHandle(r, <<Await, s>>), s.op \in Adds => s.admin \in Unused
      PROVE  Fine(<<Await, s>>)
  <2>1. \A a : s # Fail(a)
    BY <1>1 DEF Fail
  <2>2. \A a \in Admins : <<Await, s>> # <<Await, Fail(a)>>
    BY <2>1
  <2> QED
    BY <1>1, <2>2, OneLater DEF AdminHandle, Opens
<1>2. CASE Setup(r)
  <2>1. PICK a \in Unused : AdminHandle(r, <<Await, AddAdmin(a, "owner"), OnlyOne(a)>>)
    BY <1>2 DEF Setup
  <2>2. a \in Admins
    BY DEF Unused
  <2>3. Later(<<Await, AddAdmin(a, "owner"), OnlyOne(a)>>)
    BY <2>2 DEF Later
  <2>4. \A b : Mentions(<<Await, AddAdmin(a, "owner"), OnlyOne(a)>>, Claims, b) => b = a
    BY DEF Mentions, Claims, Await, AddAdmin, OnlyOne
  <2>5. \A b : <<Await, AddAdmin(a, "owner"), OnlyOne(a)>> # <<Await, Fail(b)>>
    OBVIOUS
  <2> QED
    BY <2>1, <2>3, <2>4, <2>5 DEF Opens, AdminHandle
<1>3. CASE SignIns(r, Admins)
  <2>1. PICK a \in Admins, good \in BOOLEAN : AdminLogin(r, a, good)
    BY <1>3 DEF SignIns
  <2>2. CASE good
    <3>1. AdminHandle(r, <<Await, Forgive(a), Stamp(a)>>)
      BY <2>1, <2>2 DEF AdminLogin
    <3>2. \A b : ~ Mentions(<<Await, Forgive(a), Stamp(a)>>, Claims, b)
      BY DEF Mentions, Claims, Await, Forgive, Stamp
    <3>3. Later(<<Await, Forgive(a), Stamp(a)>>)
      BY DEF Later
    <3>4. \A b : <<Await, Forgive(a), Stamp(a)>> # <<Await, Fail(b)>>
      OBVIOUS
    <3> QED
      BY <3>1, <3>2, <3>3, <3>4 DEF Opens, AdminHandle
  <2>3. CASE ~ good
    <3>1. AdminHandle(r, <<Await, Fail(a)>>) /\ ~ LockedOut(a)
      BY <2>1, <2>3 DEF AdminLogin
    <3>2. Fail(a) \in Steps /\ Fail(a).op = "fail" /\ Fail(a).admin = a
      BY DEF Fail, Steps
    <3>3. Opens(r, <<Await, Fail(a)>>)
      BY <3>1, <3>2, OneLater DEF Opens, AdminHandle, Adds
    <3>4. ASSUME NEW b, <<Await, Fail(a)>> = <<Await, Fail(b)>>
          PROVE  a = b
      <4>1. Fail(a) = Fail(b)
        BY <3>4
      <4> QED
        BY <4>1 DEF Fail
    <3> QED
      BY <3>1, <3>3, <3>4
  <2> QED
    BY <2>1, <2>2, <2>3
<1>4. CASE Management(r, Roles)
  <2>1. PICK me \in Admins :
          \/ \E role \in Roles : CreateAdmin(r, me, role)
          \/ \E a \in Admins : \/ DeleteAdmin(r, me, a)
                               \/ \E role \in Roles, pw \in BOOLEAN : PatchAdmin(r, me, a, role, pw)
    BY <1>4 DEF Management
  <2>2. CASE \E role \in Roles : CreateAdmin(r, me, role)
    <3>1. PICK role \in Roles, a \in Unused : AdminHandle(r, <<Await, Create(me, a, role)>>)
      BY <2>2 DEF CreateAdmin, Gated
    <3>2. Create(me, a, role) \in Steps /\ Create(me, a, role).op = "create"
          /\ Create(me, a, role).admin \in Unused
      BY DEF Create, Steps, Unused
    <3> QED
      BY <1>1, <3>1, <3>2
  <2>3. CASE \E a \in Admins : DeleteAdmin(r, me, a)
    <3>1. PICK a \in Admins : AdminHandle(r, <<Await, Delete(me, a)>>)
      BY <2>3 DEF DeleteAdmin, Gated
    <3>2. Delete(me, a) \in Steps /\ Delete(me, a).op = "delete"
      BY DEF Delete, Steps
    <3> QED
      BY <1>1, <3>1, <3>2 DEF Adds
  <2>4. CASE \E a \in Admins, role \in Roles, pw \in BOOLEAN : PatchAdmin(r, me, a, role, pw)
    <3>1. PICK a \in Admins, role \in Roles, pw \in BOOLEAN :
            AdminHandle(r, <<Await, Patch(me, a, role, pw)>>)
      BY <2>4 DEF PatchAdmin, Gated
    <3>2. Patch(me, a, role, pw) \in Steps /\ Patch(me, a, role, pw).op = "patch"
      BY DEF Patch, Steps
    <3> QED
      BY <1>1, <3>1, <3>2 DEF Adds
  <2> QED
    BY <2>1, <2>2, <2>3, <2>4
<1>5. CASE Credentials(r)
  <2>1. PICK me \in Admins :
          \/ \E j \in DOMAIN sessions : RevokeSession(r, me, j)
          \/ ForceLogoutAll(r, me) \/ MintApiToken(r, me)
    BY <1>5 DEF Credentials
  <2>2. CASE \E j \in DOMAIN sessions : RevokeSession(r, me, j)
    <3>1. PICK j \in DOMAIN sessions : AdminHandle(r, <<Await, Void(j)>>)
      BY <2>2 DEF RevokeSession, Gated
    <3>2. Void(j) \in Steps /\ Void(j).op = "void"
      BY DEF Void, Steps, AdminsInv
    <3> QED
      BY <1>1, <3>1, <3>2 DEF Adds
  <2>3. CASE ForceLogoutAll(r, me)
    <3>1. AdminHandle(r, <<Await, BumpReset(Admins)>>)
      BY <2>3 DEF ForceLogoutAll, Gated
    <3>2. BumpReset(Admins) \in Steps /\ BumpReset(Admins).op = "bump"
      BY DEF BumpReset, Steps
    <3> QED
      BY <1>1, <3>1, <3>2 DEF Adds
  <2>4. CASE MintApiToken(r, me)
    <3>1. AdminHandle(r, <<Await, Stamp(me)>>)
      BY <2>4 DEF MintApiToken, Gated
    <3>2. Stamp(me) \in Steps /\ Stamp(me).op = "stamp"
      BY DEF Stamp, Steps
    <3> QED
      BY <1>1, <3>1, <3>2 DEF Adds
  <2> QED
    BY <2>1, <2>2, <2>3, <2>4
<1>6. CASE \E a \in Admins : CommandLine(r, a)
  <2>1. PICK a \in Admins : CommandLine(r, a)
    BY <1>6
  <2>2. CASE AdminHandle(r, <<Await, BumpReset({a})>>)
    <3>2. BumpReset({a}) \in Steps /\ BumpReset({a}).op = "bump"
      BY DEF BumpReset, Steps
    <3> QED
      BY <1>1, <2>2, <3>2 DEF Adds
  <2>3. CASE a \in Unused /\ AdminHandle(r, <<Await, AddAdmin(a, "owner")>>)
    <3>2. /\ AddAdmin(a, "owner") \in Steps /\ AddAdmin(a, "owner").op = "add"
          /\ AddAdmin(a, "owner").admin = a
      BY DEF AddAdmin, Steps, Roles
    <3> QED
      BY <1>1, <2>3, <3>2
  <2> QED
    BY <2>1, <2>2, <2>3 DEF CommandLine
<1> QED
  BY <1>2, <1>3, <1>4, <1>5, <1>6 DEF Arrives

LEMMA OpensKeeps ==
  ASSUME AdminsInv, NEW r \in Requests, NEW q, Opens(r, q)
  PROVE  /\ AdminsInv'
         /\ todo'[r] = q /\ \A s \in Requests \ {r} : todo'[s] = todo[s]
<1>1. /\ Plan(q) /\ Runnable(r) /\ Leaves(r, q)
      /\ \A a \in Admins : Mentions(q, Claims, a) => a \in Unused
      /\ UNCHANGED <<adminTables, clockVars>>
  BY DEF Opens, Begin, Plan
<1>2. \A a \in Admins : Mentions(q, Claims, a) =>
        \A s \in Requests \ {r} : ~ Mentions(todo[s], Claims, a)
  BY <1>1, UnusedFree
<1>3. LoopInv' /\ todo'[r] = q /\ \A s \in Requests \ {r} : todo'[s] = todo[s]
  BY <1>1, <1>2, LoopLeaves DEF AdminsInv
<1>4. admins' = admins
  BY <1>1 DEF adminTables
<1>5. \A a \in Admins : Mentions(q, Adds, a) => admins[a].in = "no"
  BY <1>1 DEF Mentions, Adds, Claims, Unused
<1>6. \A a \in Admins : q \notin Done(a)
  BY DoneIs DEF Opens, Later
<1>7. RowsInv'
  BY <1>3, <1>4, <1>5, <1>6, RowsLeave DEF AdminsInv, RowsInv
<1> QED
  BY <1>1, <1>3, <1>7 DEF AdminsInv, adminTables, clockVars

LEMMA AdminContinueKeeps ==
  ASSUME AdminsInv, NEW r \in Requests, AdminContinue(r)
  PROVE  /\ AdminsInv' /\ Later(todo[r])
         /\ todo'[r] = Tail(todo[r]) /\ \A s \in Requests \ {r} : todo'[s] = todo[s]
<1> DEFINE q == todo[r]
<1>1. /\ Plan(q) /\ q # <<>> /\ Head(q).op = "await" /\ Runnable(r) /\ Leaves(r, Tail(q))
      /\ UNCHANGED <<adminTables, clockVars>>
  BY DEF AdminContinue, Resume, Next1, AdminsInv, LoopInv
<1>2. /\ Later(q) /\ Piece(Tail(q)) /\ q \notin UNION {Done(a) : a \in Admins}
      /\ \A ops, a : ops \subseteq Adds \cup Claims =>
           (Mentions(q, ops, a) <=> Mentions(Tail(q), ops, a))
  BY <1>1, PlanAwait
<1> DEFINE rest == Tail(q)
<1>3. \A a \in Admins : /\ Mentions(rest, Claims, a) <=> Mentions(q, Claims, a)
                        /\ Mentions(rest, Adds, a) <=> Mentions(q, Adds, a)
  BY <1>2
<1>4. \A a \in Admins : Mentions(rest, Claims, a) =>
        \A s \in Requests \ {r} : ~ Mentions(todo[s], Claims, a)
  BY <1>3 DEF AdminsInv, LoopInv
<1>5. Plan(rest)
  BY <1>2 DEF Plan
<1>6. LoopInv' /\ todo'[r] = rest /\ \A s \in Requests \ {r} : todo'[s] = todo[s]
  BY <1>1, <1>4, <1>5, LoopLeaves DEF AdminsInv
<1>7. admins' = admins
  BY <1>1 DEF adminTables
<1>8. \A a \in Admins : rest \notin Done(a)
  <2>1. ASSUME NEW s \in Steps, q = <<Await, s>>, s.op \notin {"only", "back", "drop", "role"}
        PROVE  Len(rest) = 1 /\ rest[1] = s
    BY <2>1
  <2>2. \A s, t : q = <<Await, s, t>> => Len(rest) = 2
    OBVIOUS
  <2> HIDE DEF rest
  <2>3. ASSUME NEW a, rest \in Done(a)
        PROVE  FALSE
    <3>1. Len(rest) = 1 /\ rest[1].op \in {"only", "back", "drop"}
      BY <2>3, DoneIs
    <3> QED
      BY <1>2, <2>1, <2>2, <3>1 DEF Later
  <2> QED
    BY <2>3
<1>9. \A a \in Admins : Mentions(rest, Adds, a) => admins[a].in = "no"
  BY <1>3 DEF AdminsInv, RowsInv
<1>10. RowsInv'
  <2> HIDE DEF rest
  <2> QED
    BY <1>6, <1>7, <1>8, <1>9, RowsLeave DEF AdminsInv, RowsInv
<1> QED
  BY <1>1, <1>2, <1>6, <1>10 DEF AdminsInv, adminTables, clockVars

LEMMA AdminStatementKeeps ==
  ASSUME AdminsInv, NEW r \in Requests, AdminStatement(r),
         NEW s, s = Head(todo[r]), NEW rest, rest = AdminThen(s, Tail(todo[r]))
  PROVE  /\ AdminsInv' /\ s \in Steps /\ Plan(rest) /\ Runnable(r) /\ Leaves(r, rest)
         /\ todo'[r] = rest /\ \A t \in Requests \ {r} : todo'[t] = todo[t]
         /\ s.op \notin {"add", "forgive"} => todo[r] = <<s>>
         /\ s.op # "create" => \A a : ~ Mentions(rest, Adds, a)
<1> DEFINE q == todo[r]
<1>1. /\ Plan(q) /\ q # <<>> /\ Head(q).op # "await" /\ Runnable(r) /\ Leaves(r, rest)
      /\ admins' = AdminsAfter(s) /\ failures' = FailuresAfter(s)
      /\ sessions' = SessionsAfter(s) /\ setups' = SetupsAfter(s, r) /\ now' = now
  BY DEF AdminStatement, AdminsInv, LoopInv, clockVars
<1>2. admins \in Rows /\ now \in Nat
  BY DEF AdminsInv, RowsInv, Rows
<1>3. /\ Piece(q) /\ s \in Steps
      /\ \/ q = <<s>> /\ Tail(q) = <<>>
         \/ \E a \in Admins : q = <<AddAdmin(a, "owner"), OnlyOne(a)>> /\ s = AddAdmin(a, "owner")
         \/ \E a \in Admins : q = <<Forgive(a), Stamp(a)>> /\ s = Forgive(a)
  BY <1>1, PlanHead
<1>4. s.op \notin {"add", "forgive"} => q = <<s>>
  <2>1. \A a : AddAdmin(a, "owner").op = "add" /\ Forgive(a).op = "forgive"
    BY DEF AddAdmin, Forgive
  <2> QED
    BY <1>3, <2>1
<1>5. /\ Plan(rest)
      /\ \A a : Mentions(rest, Claims, a) => Mentions(q, Claims, a)
      /\ \A a : Mentions(rest, Adds, a) => s.op = "create" /\ Mentions(q, Adds, a)
      /\ \A a \in Admins : rest \in Done(a) =>
           \/ s.op = "only" /\ q = <<OnlyOne(a)>>
           \/ s.op = "add" /\ s.admin = a
           \/ s.op = "delete" /\ AdminExists(a)
  <2> HIDE DEF q
  <2> QED
    BY <1>1, <1>2, Thens DEF Rows, q
<1>6. LoopInv' /\ todo'[r] = rest /\ \A t \in Requests \ {r} : todo'[t] = todo[t]
  <2>1. \A a \in Admins : Mentions(rest, Claims, a) =>
          \A t \in Requests \ {r} : ~ Mentions(todo[t], Claims, a)
    BY <1>5 DEF AdminsInv, LoopInv
  <2> QED
    BY <1>1, <1>5, <2>1, LoopLeaves DEF AdminsInv
<1>7. /\ admins' \in Rows
      /\ \A a \in Admins :
           /\ s.op = "add" /\ s.admin = a => admins'[a].in = "yes"
           /\ s.op \in {"drop", "back"} /\ s.admin = a => admins'[a].in = "gone"
           /\ ~ (s.op \in {"add", "drop", "back"} /\ s.admin = a) =>
                admins'[a].in = admins[a].in
  BY <1>1, <1>2, <1>3, RowsAfter
<1>8. ASSUME NEW a \in Admins, s.op = "add", s.admin = a
      PROVE  /\ admins[a].in = "no" /\ admins'[a].in = "yes"
             /\ Mentions(q, Claims, a) /\ ~ Mentions(rest, Adds, a)
  <2>1. Mentions(q, Claims, a) /\ Mentions(q, Adds, a)
    BY <1>1, <1>8 DEF Mentions, Claims, Adds
  <2> QED
    BY <1>5, <1>7, <1>8, <2>1 DEF AdminsInv, RowsInv
<1>9. ASSUME NEW a \in Admins, s.op \in {"drop", "back"}, s.admin = a
      PROVE  admins[a].in # "no"
  <2>1. s = DropAdmin(a) \/ s = TakeBack(a)
    BY <1>3, <1>9 DEF Steps, DropAdmin, TakeBack
  <2>2. q \in Done(a)
    BY <1>4, <1>9, <2>1 DEF Done
  <2> QED
    BY <2>2 DEF AdminsInv, RowsInv
<1>10. \A a \in Admins : admins[a].in # "no" => admins'[a].in # "no"
  BY <1>7, <1>8
<1>11. \A a \in Admins : admins[a].in = "no" /\ admins'[a].in # "no" =>
         Mentions(q, Claims, a) /\ ~ Mentions(rest, Adds, a)
  BY <1>7, <1>8, <1>9
<1>12. \A a \in Admins : Mentions(rest, Adds, a) => admins[a].in = "no"
  BY <1>5 DEF AdminsInv, RowsInv
<1>13. ASSUME NEW a \in Admins, rest \in Done(a)
       PROVE  admins'[a].in # "no"
  <2>1. CASE s.op = "only" /\ q = <<OnlyOne(a)>>
    <3>1. q \in Done(a)
      BY <2>1 DEF Done
    <3> QED
      BY <1>10, <3>1 DEF AdminsInv, RowsInv
  <2>2. CASE s.op = "add" /\ s.admin = a
    BY <1>8, <2>2
  <2>3. CASE s.op = "delete" /\ AdminExists(a)
    BY <1>10, <2>3 DEF AdminExists
  <2> QED
    BY <1>5, <1>13, <2>1, <2>2, <2>3
<1>14. RowsInv'
  BY <1>6, <1>7, <1>10, <1>11, <1>12, <1>13, RowsLeave, ZenonT(30) DEF AdminsInv, Rows
<1>15. failures' \in [Admins -> Seq(Nat)]
  <2>1. CASE s.op = "fail"
    <3>1. s.admin \in Admins
      BY <1>3, <2>1 DEF Steps
    <3>2. failures' = [failures EXCEPT ![s.admin] = Append(failures[s.admin], now)]
      BY <1>1, <2>1 DEF FailuresAfter
    <3>3. failures[s.admin] \in Seq(Nat) /\ failures \in [Admins -> Seq(Nat)]
      BY <3>1 DEF AdminsInv
    <3>4. Append(failures[s.admin], now) \in Seq(Nat)
      BY <1>2, <3>3
    <3> QED
      BY <3>2, <3>3, <3>4
  <2>2. CASE s.op = "forgive"
    <3>2. failures' = [failures EXCEPT ![s.admin] = <<>>]
      BY <1>1, <2>2 DEF FailuresAfter
    <3>3. <<>> \in Seq(Nat)
      OBVIOUS
    <3> QED
      BY <3>2, <3>3 DEF AdminsInv
  <2>3. CASE s.op \notin {"fail", "forgive"}
    BY <1>1, <2>3 DEF FailuresAfter, AdminsInv
  <2> QED
    BY <2>1, <2>2, <2>3
<1>16. sessions' \in Seq([admin : Admins, iat : Nat, exp : Nat, revoked : BOOLEAN])
  <2> DEFINE T == [admin : Admins, iat : Nat, exp : Nat, revoked : BOOLEAN]
  <2>1. CASE s.op = "record"
    <3>1. [admin |-> s.admin, iat |-> s.iat, exp |-> s.iat + SessionTtl, revoked |-> FALSE] \in T
      BY <1>3, <2>1, AdminsAssumption DEF Steps
    <3>2. sessions' = Append(sessions, [admin |-> s.admin, iat |-> s.iat,
                                        exp |-> s.iat + SessionTtl, revoked |-> FALSE])
      BY <1>1, <2>1 DEF SessionsAfter
    <3> HIDE DEF T
    <3>3. sessions \in Seq(T)
      BY DEF AdminsInv, T
    <3> QED
      BY <3>1, <3>2, <3>3 DEF T
  <2>2. CASE s.op = "void"
    <3>1. PICK j \in Nat : sessions' = [sessions EXCEPT ![j].revoked = TRUE]
      BY <1>1, <1>3, <2>2 DEF SessionsAfter, Steps
    <3>2. sessions \in Seq(T)
      BY DEF AdminsInv
    <3>3. \A t \in T : [t EXCEPT !.revoked = TRUE] \in T
      OBVIOUS
    <3> HIDE DEF T
    <3>4. CASE j \in DOMAIN sessions
      <4>1. sessions[j] \in T
        BY <3>2, <3>4
      <4>2. PICK v : v = [sessions[j] EXCEPT !.revoked = TRUE]
        OBVIOUS
      <4>3. v \in T /\ sessions' = [sessions EXCEPT ![j] = v]
        BY <3>1, <3>3, <4>1, <4>2
      <4>4. sessions' \in Seq(T)
        BY <3>2, <3>4, <4>3
      <4> QED
        BY <4>4 DEF T
    <3>5. CASE j \notin DOMAIN sessions
      <4>1. sessions' = sessions
        BY <3>1, <3>2, <3>5
      <4> QED
        BY <3>2, <4>1 DEF T
    <3> QED
      BY <3>4, <3>5
  <2>3. CASE s.op \notin {"record", "void"}
    BY <1>1, <2>3 DEF SessionsAfter, AdminsInv
  <2> QED
    BY <2>1, <2>2, <2>3
<1>17. setups' \in SUBSET Requests
  BY <1>1 DEF SetupsAfter, AdminsInv
<1> QED
  BY <1>1, <1>2, <1>3, <1>4, <1>5, <1>6, <1>14, <1>15, <1>16, <1>17 DEF AdminsInv

LEMMA AdminCrashKeeps ==
  ASSUME AdminsInv, NEW p \in Procs, AdminCrash(p)
  PROVE  AdminsInv' /\ todo' = [r \in Requests |-> IF Home[r] = p THEN <<>> ELSE todo[r]]
<1>1. /\ todo' = [r \in Requests |-> IF Home[r] = p THEN <<>> ELSE todo[r]]
      /\ turn' = [turn EXCEPT ![p] = {}]
      /\ UNCHANGED <<admins, failures, sessions, setups, now>>
  BY DEF AdminCrash, CrashLoop, adminTables
<1>2. \A r \in Requests : todo'[r] = <<>> \/ (Home[r] # p /\ todo'[r] = todo[r])
  BY <1>1
<1>3. /\ ~ Piece(<<>>) /\ Plan(<<>>)
      /\ \A a : ~ Mentions(<<>>, Claims, a) /\ ~ Mentions(<<>>, Adds, a) /\ <<>> \notin Done(a)
  BY DoneIs DEF Piece, Plan, Mentions
<1>4. todo' \in [Requests -> Seq(Steps \cup {Await})] /\ turn' \in [Procs -> SUBSET Requests]
  BY <1>1 DEF AdminsInv, LoopInv
<1>5. /\ \A r \in Requests : Plan(todo'[r])
      /\ \A a \in Admins, r, s \in Requests :
           Mentions(todo'[r], Claims, a) /\ Mentions(todo'[s], Claims, a) => r = s
      /\ \A a \in Admins, r \in Requests :
           /\ Mentions(todo'[r], Adds, a) => admins'[a].in = "no"
           /\ todo'[r] \in Done(a) => admins'[a].in # "no"
  BY <1>1, <1>2, <1>3 DEF AdminsInv, LoopInv, RowsInv
<1>6. \A r \in Requests : Piece(todo'[r]) => r \in turn'[Home[r]]
  BY <1>1, <1>2, <1>3, LoopAssumption DEF AdminsInv, LoopInv
<1>7. LoopInv'
  BY <1>4, <1>5, <1>6 DEF LoopInv, Mentions
<1>8. RowsInv'
  BY <1>1, <1>5 DEF AdminsInv, RowsInv, Mentions, Done, OnlyOne, TakeBack, DropAdmin, Adds
<1> QED
  BY <1>1, <1>7, <1>8 DEF AdminsInv

LEMMA TickKeeps ==
  ASSUME AdminsInv, AdminTick \/ UNCHANGED adminVars
  PROVE  AdminsInv' /\ todo' = todo /\ admins' = admins
<1>1. /\ UNCHANGED <<todo, turn, admins, failures, sessions, setups>> /\ now' \in Nat
  BY DEF AdminTick, Tick, AdminsInv, adminVars, adminTables, clockVars, loopVars
<1> QED
  BY <1>1 DEF AdminsInv, LoopInv, RowsInv, Mentions, Done, OnlyOne, TakeBack, DropAdmin

LEMMA AdminsSteps ==
  ASSUME [AdminsNext]_adminVars
  PROVE  \/ \E r \in Requests : AdminStatement(r)
         \/ \E r \in Requests : AdminContinue(r)
         \/ \E r \in Requests : Arrives(r)
         \/ \E p \in Procs : AdminCrash(p)
         \/ AdminTick \/ UNCHANGED adminVars
  BY DEF AdminsNext, AdminRunning, Arrives

LEMMA AdminsStep ==
  AdminsInv /\ [AdminsNext]_adminVars => AdminsInv'
  BY AdminsSteps, AdminStatementKeeps, AdminContinueKeeps, ArrivalsOpen, OpensKeeps, AdminCrashKeeps, TickKeeps

LEMMA AdminsStart ==
  AdminsInit => AdminsInv
<1> SUFFICES ASSUME AdminsInit
             PROVE  AdminsInv
  OBVIOUS
<1>1. PICK first \in {{}} \cup {{a} : a \in Admins} :
         admins = [a \in Admins |-> [in |-> IF a \in first THEN "yes" ELSE "no",
                                     role |-> "owner", resetAt |-> 0]]
  BY DEF AdminsInit
<1>2. admins \in Rows
  BY <1>1 DEF Rows, Roles
<1>3. todo = [r \in Requests |-> <<>>] /\ turn = [p \in Procs |-> {}] /\ now = 0
  BY DEF AdminsInit, LoopInit
<1>4. /\ ~ Piece(<<>>) /\ Plan(<<>>)
      /\ \A a : ~ Mentions(<<>>, Claims, a) /\ ~ Mentions(<<>>, Adds, a) /\ <<>> \notin Done(a)
  BY DoneIs DEF Piece, Plan, Mentions
<1>5. LoopInv /\ RowsInv
  BY <1>2, <1>3, <1>4 DEF LoopInv, RowsInv, Rows
<1>6. /\ failures \in [Admins -> Seq(Nat)] /\ setups \in SUBSET Requests
      /\ sessions \in Seq([admin : Admins, iat : Nat, exp : Nat, revoked : BOOLEAN])
  BY DEF AdminsInit
<1> QED
  BY <1>3, <1>5, <1>6 DEF AdminsInv

-----------------------------------------------------------------------------
(* An installation keeps an owner *)

\* One process serves the admins.  Two of them may each demote or remove the other owner.
OneServer == \A r, s \in Requests : Home[r] = Home[s]

Another(a) == \E b \in Owners : b # a
Decided(q) ==
  /\ \A a \in Admins, role \in Roles \ {"owner"} : q = <<SetRole(a, role, "owner")>> => Another(a)
  /\ \A a \in Admins : q = <<DropAdmin(a)>> /\ a \in Owners => Another(a)

OwnersInv == AdminsInv /\ \A r \in Requests : Decided(todo[r])

LEMMA OthersWait ==
  ASSUME OneServer, LoopInv, NEW r \in Requests, Runnable(r), NEW s \in Requests \ {r}
  PROVE  todo[s] = <<>> \/ Later(todo[s])
  BY DEF OneServer, LoopInv, Runnable, Plan

LEMMA NotOne ==
  ASSUME NEW q, q = <<>> \/ Later(q)
  PROVE  Len(q) # 1
  BY DEF Later

(* Who waits binds no owner.                                               *)
LEMMA WaitsUnbound ==
  ASSUME AdminsInv, NEW s \in Requests, todo[s] = <<>> \/ Later(todo[s]), NEW b \in Owners
  PROVE  ~ Mentions(todo[s], {"only", "back"}, b)
<1> SUFFICES ASSUME Mentions(todo[s], {"only", "back"}, b)
             PROVE  FALSE
  OBVIOUS
<1>1. b \in Admins /\ admins[b].in = "yes"
  BY DEF Owners, AdminRows, AdminExists
<1>2. ~ Mentions(todo[s], Adds, b)
  BY <1>1 DEF AdminsInv, RowsInv
<1>3. PICK n \in DOMAIN todo[s] : todo[s][n].op \in {"only", "back"} /\ todo[s][n].admin = b
  BY DEF Mentions
<1>4. CASE \E t \in Steps : todo[s] = <<Await, t>> /\ t.op \notin {"only", "back", "drop", "role"}
  BY <1>3, <1>4 DEF Await
<1>5. CASE \E a \in Admins : todo[s] = <<Await, AddAdmin(a, "owner"), OnlyOne(a)>>
  <2>1. PICK a \in Admins : todo[s] = <<Await, AddAdmin(a, "owner"), OnlyOne(a)>>
    BY <1>5
  <2>2. /\ AddAdmin(a, "owner").op = "add" /\ AddAdmin(a, "owner").admin = a
        /\ OnlyOne(a).op = "only" /\ OnlyOne(a).admin = a /\ Await.op = "await"
    BY DEF AddAdmin, OnlyOne, Await
  <2>3. a = b
    BY <1>3, <2>1, <2>2
  <2> QED
    BY <1>2, <2>1, <2>2, <2>3 DEF Mentions, Adds
<1>6. CASE \E a \in Admins : todo[s] = <<Await, Forgive(a), Stamp(a)>>
  BY <1>3, <1>6 DEF Await, Forgive, Stamp
<1> QED
  BY <1>3, <1>4, <1>5, <1>6 DEF Later

(* Guards that count owners leave one beside the one they are about.       *)
LEMMA LastOwnerGuards ==
  ASSUME NEW a, ~ LastOwner("owner")
  PROVE  Another(a)
<1> SUFFICES ASSUME ~ Another(a)
             PROVE  Cardinality(Owners) <= 1
  BY DEF LastOwner
<1>1. Owners = {} \/ Owners = {a}
  BY DEF Another
<1> QED
  BY <1>1, FS_EmptySet, FS_Singleton, SMTT(30)

(* A change of role and a delete are decided by the statement before them. *)
LEMMA DecidedBy ==
  ASSUME NEW q, Plan(q), q # <<>>, Head(q).op # "await", NEW s, s = Head(q),
         NEW x, AdminThen(s, Tail(q)) = <<x>>, x.op \in {"role", "drop"}
  PROVE  \/ /\ s.op = "demote" /\ x = SetRole(s.admin, s.role, s.was)
            /\ s.role = "owner" \/ ~ LastOwner(s.was)
         \/ /\ s.op = "delete" /\ x = DropAdmin(s.admin)
            /\ s.admin \in AdminRows /\ ~ LastOwner(admins[s.admin].role)
<1>1. /\ s \in Steps
      /\ \/ q = <<s>> /\ Tail(q) = <<>>
         \/ \E a \in Admins : Tail(q) = <<OnlyOne(a)>>
         \/ \E a \in Admins : Tail(q) = <<Stamp(a)>>
  BY PlanHead
<1>2. <<>> # <<x>> /\ (\A y, z : <<y, z>> # <<x>>) /\ (\A y : <<y>> = <<x>> => y = x)
  OBVIOUS
<1>3. CASE s.op = "only"
  <2>1. AdminThen(s, Tail(q)) \in {<<>>, <<TakeBack(s.admin)>>}
    BY <1>3 DEF AdminThen
  <2> QED
    BY <1>2, <2>1 DEF TakeBack
<1>4. CASE s.op = "stamp"
  <2>1. AdminThen(s, Tail(q)) = <<Await, Record(s.admin, now)>>
    BY <1>4 DEF AdminThen
  <2> QED
    BY <1>2, <2>1
<1>5. CASE s.op = "create"
  <2>1. AdminThen(s, Tail(q)) \in {<<>>, <<Await, AddAdmin(s.admin, s.role)>>}
    BY <1>5 DEF AdminThen
  <2> QED
    BY <1>2, <2>1
<1>6. CASE s.op = "patch"
  <2> DEFINE d == Demote(admins[s.me].role, s.admin, s.role, admins[s.admin].role)
  <2>1. AdminThen(s, Tail(q)) \in {<<>>, <<Await>> \o <<d>>, <<>> \o <<d>>}
    BY <1>6 DEF AdminThen
  <2>2. d.op = "demote"
    BY DEF Demote
  <2> HIDE DEF d
  <2>3. AdminThen(s, Tail(q)) \in {<<>>, <<Await, d>>, <<d>>}
    BY <2>1
  <2> QED
    BY <1>2, <2>2, <2>3
<1>7. CASE s.op = "demote"
  <2>1. /\ AdminThen(s, Tail(q)) = <<SetRole(s.admin, s.role, s.was)>>
        /\ s.role = "owner" \/ ~ LastOwner(s.was)
    BY <1>2, <1>7 DEF AdminThen
  <2> QED
    BY <1>2, <1>7, <2>1
<1>8. CASE s.op = "delete"
  <2>1. /\ AdminThen(s, Tail(q)) = <<DropAdmin(s.admin)>>
        /\ AdminExists(s.admin) /\ ~ LastOwner(admins[s.admin].role)
    BY <1>2, <1>8 DEF AdminThen
  <2> QED
    BY <1>2, <1>8, <2>1 DEF AdminRows, AdminExists
<1>9. CASE s.op \notin {"only", "stamp", "create", "patch", "demote", "delete"}
  <2>1. AdminThen(s, Tail(q)) = Tail(q)
    BY <1>9 DEF AdminThen
  <2>2. \A a : OnlyOne(a).op = "only" /\ Stamp(a).op = "stamp"
    BY DEF OnlyOne, Stamp
  <2> QED
    BY <1>1, <1>2, <2>1, <2>2
<1> QED
  BY <1>3, <1>4, <1>5, <1>6, <1>7, <1>8, <1>9

LEMMA OwnersStep ==
  ASSUME OneServer, OwnersInv, [AdminsNext]_adminVars
  PROVE  \A r \in Requests : Decided(todo[r])'
<1>1. \A r \in Requests : Decided(todo[r])
  BY DEF OwnersInv
<1>3. \A x : Len(<<x>>) = 1
  OBVIOUS
<1>4. ASSUME NEW r \in Requests, todo'[r] = <<>> \/ Later(todo'[r])
      PROVE  Decided(todo[r])'
  BY <1>3, <1>4, NotOne DEF Decided
<1>5. CASE \E r \in Requests : AdminStatement(r)
  <2>1. PICK r \in Requests : AdminStatement(r)
    BY <1>5
  <2>2. PICK s : s = Head(todo[r])
    OBVIOUS
  <2>3. PICK rest : rest = AdminThen(s, Tail(todo[r]))
    OBVIOUS
  <2>4. /\ s \in Steps /\ Runnable(r) /\ todo'[r] = rest
        /\ \A t \in Requests \ {r} : todo'[t] = todo[t]
    BY <2>1, <2>2, <2>3, AdminStatementKeeps DEF OwnersInv
  <2>5. \A t \in Requests \ {r} : Decided(todo[t])'
    BY <1>4, <2>4, OthersWait DEF OwnersInv, AdminsInv
  <2>6. ASSUME NEW x, rest = <<x>>, x.op \in {"role", "drop"}
        PROVE  /\ admins' = admins
               /\ \/ /\ s.op = "demote" /\ x = SetRole(s.admin, s.role, s.was)
                     /\ s.role = "owner" \/ ~ LastOwner(s.was)
                  \/ /\ s.op = "delete" /\ x = DropAdmin(s.admin)
                     /\ s.admin \in AdminRows /\ ~ LastOwner(admins[s.admin].role)
    <3>1. Plan(todo[r]) /\ todo[r] # <<>> /\ Head(todo[r]).op # "await"
      BY <2>1 DEF AdminStatement, OwnersInv, AdminsInv, LoopInv
    <3>2. \/ /\ s.op = "demote" /\ x = SetRole(s.admin, s.role, s.was)
             /\ s.role = "owner" \/ ~ LastOwner(s.was)
          \/ /\ s.op = "delete" /\ x = DropAdmin(s.admin)
             /\ s.admin \in AdminRows /\ ~ LastOwner(admins[s.admin].role)
      BY <2>2, <2>3, <2>6, <3>1, DecidedBy
    <3>3. admins' = AdminsAfter(s)
      BY <2>1, <2>2 DEF AdminStatement
    <3>4. admins' = admins
      BY <3>2, <3>3 DEF AdminsAfter
    <3> QED
      BY <3>2, <3>4
  <2>7. ASSUME NEW a \in Admins, NEW role \in Roles \ {"owner"},
               rest = <<SetRole(a, role, "owner")>>
        PROVE  Another(a)'
    <3>1. PICK x : x = SetRole(a, role, "owner")
      OBVIOUS
    <3>2. x.op = "role" /\ x.role = role /\ x.was = "owner" /\ x.op # "drop"
      BY <3>1 DEF SetRole
    <3>3. /\ admins' = admins /\ x = SetRole(s.admin, s.role, s.was)
          /\ s.role = "owner" \/ ~ LastOwner(s.was)
      BY <2>6, <2>7, <3>1, <3>2 DEF DropAdmin
    <3>4. s.role = role /\ s.was = "owner"
      BY <3>2, <3>3 DEF SetRole
    <3>5. Another(a)
      BY <3>3, <3>4, LastOwnerGuards
    <3> QED
      BY <3>3, <3>5 DEF Another, Owners, AdminRows, AdminExists
  <2>8. ASSUME NEW a \in Admins, rest = <<DropAdmin(a)>>, a \in Owners'
        PROVE  Another(a)'
    <3>1. PICK x : x = DropAdmin(a)
      OBVIOUS
    <3>2. x.op = "drop" /\ x.admin = a /\ x.op # "role"
      BY <3>1 DEF DropAdmin
    <3>3. /\ admins' = admins /\ x = DropAdmin(s.admin)
          /\ ~ LastOwner(admins[s.admin].role)
      BY <2>6, <2>8, <3>1, <3>2 DEF SetRole
    <3>4. s.admin = a
      BY <3>2, <3>3 DEF DropAdmin
    <3>5. admins[a].role = "owner"
      BY <2>8, <3>3 DEF Owners
    <3>6. Another(a)
      BY <3>3, <3>4, <3>5, LastOwnerGuards
    <3> QED
      BY <3>3, <3>6 DEF Another, Owners, AdminRows, AdminExists
  <2>9. Decided(todo[r])'
    BY <2>4, <2>7, <2>8 DEF Decided, SetRole, DropAdmin
  <2> QED
    BY <2>5, <2>9
<1>6. CASE \E r \in Requests : AdminContinue(r)
  <2>1. PICK r \in Requests : AdminContinue(r)
    BY <1>6
  <2>2. /\ Later(todo[r]) /\ todo'[r] = Tail(todo[r])
        /\ \A s \in Requests \ {r} : todo'[s] = todo[s]
    BY <2>1, AdminContinueKeeps DEF OwnersInv
  <2>3. \A s \in Requests \ {r} : Decided(todo[s])'
    BY <1>4, <2>1, <2>2, OthersWait DEF OwnersInv, AdminsInv, AdminContinue, Resume, Next1
  <2>4. \A a, role, was : todo'[r] # <<SetRole(a, role, was)>> /\ todo'[r] # <<DropAdmin(a)>>
    <3>1. ASSUME NEW s \in Steps, todo[r] = <<Await, s>>, NEW x, todo'[r] = <<x>>
          PROVE  x = s
      BY <2>2, <3>1
    <3>2. ASSUME NEW y, NEW z, todo[r] = <<Await, y, z>>, NEW x, todo'[r] = <<x>>
          PROVE  FALSE
      <4>1. Len(todo'[r]) = 2 /\ Len(<<x>>) = 1
        BY <2>2, <3>2
      <4> QED
        BY <3>2, <4>1
    <3>3. \A a, role, was : SetRole(a, role, was).op = "role" /\ DropAdmin(a).op = "drop"
      BY DEF SetRole, DropAdmin
    <3> QED
      BY <2>2, <3>1, <3>2, <3>3 DEF Later
  <2>5. Decided(todo[r])'
    BY <2>4 DEF Decided, SetRole, DropAdmin
  <2> QED
    BY <2>3, <2>5
<1>7. CASE \E r \in Requests : Arrives(r)
  <2>1. PICK r \in Requests : Arrives(r)
    BY <1>7
  <2>2. PICK q : Opens(r, q)
    BY <2>1, ArrivalsOpen DEF OwnersInv
  <2>3. /\ Later(q) /\ Runnable(r) /\ todo'[r] = q
        /\ \A s \in Requests \ {r} : todo'[s] = todo[s]
    BY <2>2, OpensKeeps DEF OwnersInv, Opens, Begin
  <2>4. \A s \in Requests \ {r} : Decided(todo[s])'
    BY <1>4, <2>3, OthersWait DEF OwnersInv, AdminsInv
  <2> QED
    BY <1>4, <2>3, <2>4
<1>8. CASE \E p \in Procs : AdminCrash(p)
  <2>1. PICK p \in Procs : AdminCrash(p)
    BY <1>8
  <2>2. todo' = [r \in Requests |-> IF Home[r] = p THEN <<>> ELSE todo[r]]
    BY <2>1, AdminCrashKeeps DEF OwnersInv
  <2>3. \A r \in Requests : Home[r] = p
    BY <2>1 DEF OneServer, AdminCrash, CrashLoop
  <2> QED
    BY <1>4, <2>2, <2>3
<1>9. CASE AdminTick \/ UNCHANGED adminVars
  <2>1. todo' = todo /\ admins' = admins
    BY <1>9, TickKeeps DEF OwnersInv
  <2> QED
    BY <1>1, <2>1 DEF Decided, Another, Owners, AdminRows, AdminExists, SetRole, DropAdmin
<1> QED
  BY <1>5, <1>6, <1>7, <1>8, <1>9, AdminsSteps

Binds == {"only", "back"}

(* No statement binds a row that was not bound.                            *)
LEMMA ThensBind ==
  ASSUME NEW q, Plan(q), q # <<>>, Head(q).op # "await", NEW s, s = Head(q), NEW rest,
         rest = AdminThen(s, Tail(q)), NEW b, Mentions(rest, Binds, b)
  PROVE  Mentions(q, Binds, b)
<1>1. /\ s \in Steps
      /\ \/ q = <<s>> /\ Tail(q) = <<>>
         \/ \E a \in Admins : /\ q = <<AddAdmin(a, "owner"), OnlyOne(a)>>
                              /\ s = AddAdmin(a, "owner") /\ Tail(q) = <<OnlyOne(a)>>
         \/ \E a \in Admins : /\ q = <<Forgive(a), Stamp(a)>>
                              /\ s = Forgive(a) /\ Tail(q) = <<Stamp(a)>>
  BY PlanHead
<1>2. PICK n \in DOMAIN rest : rest[n].op \in Binds /\ rest[n].admin = b
  BY DEF Mentions
<1>3. CASE s.op = "only"
  <2>1. rest \in {<<>>, <<TakeBack(s.admin)>>}
    BY <1>3 DEF AdminThen
  <2>2. s.admin = b
    BY <1>2, <2>1 DEF TakeBack
  <2>3. q = <<s>>
    BY <1>1, <1>3 DEF AddAdmin, Forgive
  <2> QED
    BY <1>3, <2>2, <2>3 DEF Mentions, Binds
<1>4. CASE s.op = "stamp"
  <2>1. rest = <<Await, Record(s.admin, now)>>
    BY <1>4 DEF AdminThen
  <2> QED
    BY <1>2, <2>1 DEF Await, Record, Binds
<1>5. CASE s.op = "create"
  <2>1. rest \in {<<>>, <<Await, AddAdmin(s.admin, s.role)>>}
    BY <1>5 DEF AdminThen
  <2> QED
    BY <1>2, <2>1 DEF Await, AddAdmin, Binds
<1>6. CASE s.op = "patch"
  <2> DEFINE d == Demote(admins[s.me].role, s.admin, s.role, admins[s.admin].role)
  <2>1. rest \in {<<>>, <<Await>> \o <<d>>, <<>> \o <<d>>}
    BY <1>6 DEF AdminThen
  <2>2. d.op = "demote" /\ Await.op = "await"
    BY DEF Demote, Await
  <2> HIDE DEF d
  <2>3. rest \in {<<>>, <<Await, d>>, <<d>>}
    BY <2>1
  <2> QED
    BY <1>2, <2>2, <2>3 DEF Binds
<1>7. CASE s.op = "demote"
  <2>1. rest \in {<<>>, <<SetRole(s.admin, s.role, s.was)>>}
    BY <1>7 DEF AdminThen
  <2> QED
    BY <1>2, <2>1 DEF SetRole, Binds
<1>8. CASE s.op = "delete"
  <2>1. rest \in {<<>>, <<DropAdmin(s.admin)>>}
    BY <1>8 DEF AdminThen
  <2> QED
    BY <1>2, <2>1 DEF DropAdmin, Binds
<1>9. CASE s.op \notin {"only", "stamp", "create", "patch", "demote", "delete"}
  <2>1. rest = Tail(q)
    BY <1>9 DEF AdminThen
  <2>2. ASSUME NEW x, NEW y, q = <<x, y>>, rest = <<y>>
        PROVE  Mentions(q, Binds, b)
    BY <1>2, <2>2 DEF Mentions
  <2>3. Tail(q) # <<>>
    BY <1>2, <2>1
  <2>4. \E x, y : q = <<x, y>> /\ Tail(q) = <<y>>
    BY <1>1, <2>3
  <2> QED
    BY <2>1, <2>2, <2>4
<1> QED
  BY <1>3, <1>4, <1>5, <1>6, <1>7, <1>8, <1>9

LEMMA StandsOn ==
  ASSUME NEW b \in Owners', \A r \in Requests : ~ Mentions(todo'[r], Binds, b)
  PROVE  b \in Standing'
  BY DEF Standing, Mentions, Binds

LEMMA OwnerStays ==
  ASSUME OneServer, OwnersInv, [AdminsNext]_adminVars, NEW b \in Standing
  PROVE  Standing' # {} \/ StaleRole
<1>1. /\ b \in Owners /\ b \in Admins /\ admins[b].in = "yes" /\ admins[b].role = "owner"
      /\ \A r \in Requests : ~ Mentions(todo[r], Binds, b)
  BY DEF Standing, Owners, AdminRows, AdminExists, Mentions, Binds
<1>2. Binds \subseteq Adds \cup Claims
  BY DEF Binds, Claims
<1>3. ASSUME admins' = admins, \A r \in Requests : ~ Mentions(todo'[r], Binds, b)
      PROVE  Standing' # {}
  <2>1. b \in Owners'
    BY <1>1, <1>3 DEF Owners, AdminRows, AdminExists
  <2> QED
    BY <1>3, <2>1, StandsOn
<1>4. CASE \E r \in Requests : AdminStatement(r)
  <2>1. PICK r \in Requests : AdminStatement(r)
    BY <1>4
  <2>2. PICK s : s = Head(todo[r])
    OBVIOUS
  <2>3. PICK rest : rest = AdminThen(s, Tail(todo[r]))
    OBVIOUS
  <2>4. /\ s \in Steps /\ Runnable(r) /\ todo'[r] = rest
        /\ \A t \in Requests \ {r} : todo'[t] = todo[t]
        /\ s.op \notin {"add", "forgive"} => todo[r] = <<s>>
    BY <2>1, <2>2, <2>3, AdminStatementKeeps DEF OwnersInv
  <2>5. Plan(todo[r]) /\ todo[r] # <<>> /\ Head(todo[r]).op # "await"
    BY <2>1 DEF AdminStatement, OwnersInv, AdminsInv, LoopInv
  <2>6. /\ \A c : ~ Mentions(todo[r], Binds, c) => ~ Mentions(rest, Binds, c)
    BY <2>2, <2>3, <2>5, ThensBind
  <2>7. ASSUME NEW c \in Owners, c \in Owners', ~ Mentions(todo[r], Binds, c)
        PROVE  Standing' # {}
    <3>1. \A t \in Requests \ {r} : ~ Mentions(todo'[t], Binds, c)
      BY <2>4, OthersWait, WaitsUnbound DEF OwnersInv, AdminsInv, Binds
    <3>2. ~ Mentions(todo'[r], Binds, c)
      BY <2>4, <2>6, <2>7
    <3> QED
      BY <2>7, <3>1, <3>2, StandsOn
  <2>8. /\ admins' = AdminsAfter(s) /\ admins \in Rows /\ now \in Nat
    BY <2>1, <2>2 DEF AdminStatement, OwnersInv, AdminsInv, RowsInv, Rows
  <2>9. \A a \in Admins :
          /\ s.op = "add" /\ s.admin = a => admins'[a].in = "yes" /\ admins'[a].role = s.role
          /\ ~ (s.op \in {"add", "drop", "back"} /\ s.admin = a) =>
               admins'[a].in = admins[a].in
          /\ s.op = "role" /\ s.admin = a =>
               admins'[a].role = IF admins[a].in = "yes" THEN s.role ELSE admins[a].role
          /\ ~ (s.op \in {"add", "role"} /\ s.admin = a) =>
               admins'[a].role = admins[a].role
    BY <2>4, <2>8, RowsAfter
  <2>10. ASSUME NEW c \in Owners, ~ (s.op \in {"add", "drop", "back", "role"} /\ s.admin = c)
         PROVE  c \in Owners'
    BY <2>9, <2>10 DEF Owners, AdminRows, AdminExists
  <2>11. CASE s.op = "add" /\ s.admin = b
    <3>1. Mentions(todo[r], Adds, b)
      BY <2>2, <2>5, <2>11 DEF Mentions, Adds, OwnersInv, AdminsInv, LoopInv
    <3> QED
      BY <1>1, <3>1 DEF OwnersInv, AdminsInv, RowsInv
  <2>12. CASE s.op = "back" /\ s.admin = b
    BY <1>1, <2>4, <2>12 DEF Mentions, Binds
  <2>13. CASE s.op = "drop" /\ s.admin = b
    <3>1. s = DropAdmin(b) /\ todo[r] = <<s>>
      BY <2>4, <2>13 DEF Steps, DropAdmin
    <3>2. PICK c \in Owners : c # b
      BY <1>1, <3>1 DEF OwnersInv, Decided, Another
    <3>3. ~ Mentions(todo[r], Binds, c)
      BY <2>13, <3>1 DEF Mentions, Binds
    <3> QED
      BY <2>7, <2>10, <2>13, <3>2, <3>3
  <2>14. CASE s.op = "role" /\ s.admin = b
    <3>1. todo[r] = <<s>> /\ s.role \in Roles /\ s.was \in Roles
      BY <2>4, <2>14 DEF Steps
    <3>2. rest = <<>>
      BY <2>3, <2>14, <3>1 DEF AdminThen
    <3>3. CASE s.was # admins[b].role
      <4>1. todo[r] # <<>> /\ todo'[r] # todo[r]
        BY <2>4, <3>1, <3>2
      <4> QED
        BY <2>2, <2>14, <3>3, <4>1 DEF StaleRole
    <3>4. CASE s.role = "owner"
      <4>1. b \in Owners'
        BY <1>1, <2>9, <2>14, <3>4 DEF Owners, AdminRows, AdminExists
      <4> QED
        BY <1>1, <2>7, <4>1
    <3>5. CASE s.was = "owner" /\ s.role # "owner"
      <4>1. s = SetRole(b, s.role, "owner")
        BY <2>4, <2>14, <3>5 DEF Steps, SetRole
      <4>2. PICK c \in Owners : c # b
        BY <1>1, <3>1, <3>5, <4>1 DEF OwnersInv, Decided, Another
      <4>3. ~ Mentions(todo[r], Binds, c)
        BY <2>14, <3>1 DEF Mentions, Binds
      <4> QED
        BY <2>7, <2>10, <2>14, <4>2, <4>3
    <3> QED
      BY <1>1, <3>3, <3>4, <3>5
  <2>15. CASE ~ (s.op \in {"add", "drop", "back", "role"} /\ s.admin = b)
    BY <1>1, <2>7, <2>10, <2>15
  <2> QED
    BY <2>11, <2>12, <2>13, <2>14, <2>15
<1>5. CASE \E r \in Requests : AdminContinue(r)
  <2>1. PICK r \in Requests : AdminContinue(r)
    BY <1>5
  <2>2. /\ todo'[r] = Tail(todo[r]) /\ \A s \in Requests \ {r} : todo'[s] = todo[s]
    BY <2>1, AdminContinueKeeps DEF OwnersInv
  <2>3. Plan(todo[r]) /\ todo[r] # <<>> /\ Head(todo[r]).op = "await" /\ admins' = admins
    BY <2>1 DEF AdminContinue, Resume, Next1, OwnersInv, AdminsInv, LoopInv, adminTables
  <2>4. ~ Mentions(Tail(todo[r]), Binds, b)
    BY <1>1, <1>2, <2>3, PlanAwait
  <2> QED
    BY <1>1, <1>3, <2>2, <2>3, <2>4
<1>6. CASE \E r \in Requests : Arrives(r)
  <2>1. PICK r \in Requests : Arrives(r)
    BY <1>6
  <2>2. PICK q : Opens(r, q)
    BY <2>1, ArrivalsOpen DEF OwnersInv
  <2>3. todo'[r] = q /\ \A s \in Requests \ {r} : todo'[s] = todo[s]
    BY <2>2, OpensKeeps DEF OwnersInv
  <2>4. b \notin Unused
    BY <1>1 DEF Unused
  <2>5. ~ Mentions(q, Binds, b)
    BY <1>1, <2>2, <2>4 DEF Opens, Mentions, Claims, Binds
  <2> QED
    BY <1>1, <1>3, <2>2, <2>3, <2>5 DEF Opens, adminTables
<1>7. CASE \E p \in Procs : AdminCrash(p)
  <2>1. PICK p \in Procs : AdminCrash(p)
    BY <1>7
  <2>2. \A r \in Requests : todo'[r] = <<>> \/ todo'[r] = todo[r]
    BY <2>1, AdminCrashKeeps DEF OwnersInv
  <2>3. ~ Mentions(<<>>, Binds, b)
    BY DEF Mentions
  <2> QED
    BY <1>1, <1>3, <2>1, <2>2, <2>3 DEF AdminCrash, adminTables
<1>8. CASE AdminTick \/ UNCHANGED adminVars
  BY <1>1, <1>3, <1>8, TickKeeps DEF OwnersInv
<1> QED
  BY <1>4, <1>5, <1>6, <1>7, <1>8, AdminsSteps

(* When one process serves the admins, an installation that has an owner   *)
(* keeps one, but for a change of role decided by a role read before a     *)
(* wait: for any admins, requests, times and crashes.                      *)
THEOREM OwnerAlwaysKept ==
  ASSUME OneServer
  PROVE  AdminsSpec => OwnerKept
<1>1. AdminsInit => OwnersInv
  <2>1. Len(<<>>) # 1 /\ \A x : Len(<<x>>) = 1
    OBVIOUS
  <2> QED
    BY <2>1, AdminsStart DEF OwnersInv, AdminsInit, LoopInit, Decided
<1>2. OwnersInv /\ [AdminsNext]_adminVars => OwnersInv'
  BY AdminsStep, OwnersStep DEF OwnersInv
<1>3. OwnersInv /\ [AdminsNext]_adminVars =>
        [Standing # {} => Standing' # {} \/ StaleRole]_adminVars
  BY OwnerStays
<1> QED
  BY <1>1, <1>2, <1>3, PTL DEF AdminsSpec, OwnerKept

-----------------------------------------------------------------------------
(* The way in *)

Failing(q, a) == q = <<Fail(a)>> \/ q = <<Await, Fail(a)>>
InFlight(a) == {r \in Requests : Failing(todo[r], a)}
MostFailures == MaxFailures + Cardinality(Requests) - 1

LockInv ==
  /\ AdminsInv
  /\ \A a \in Admins : \A n \in DOMAIN failures[a] : failures[a][n] <= now
  /\ \A a \in Admins : Cardinality(Recent(a)) + Cardinality(InFlight(a)) <= MostFailures
  /\ LockoutBound

(* No statement leaves a failure to be written.                            *)
LEMMA ThensFail ==
  ASSUME NEW q, Plan(q), q # <<>>, Head(q).op # "await", NEW s, s = Head(q), NEW rest,
         rest = AdminThen(s, Tail(q)), NEW b
  PROVE  ~ Failing(rest, b)
<1> SUFFICES ASSUME Failing(rest, b)
             PROVE  FALSE
  OBVIOUS
<1>1. /\ s \in Steps
      /\ \/ q = <<s>> /\ Tail(q) = <<>>
         \/ \E a \in Admins : Tail(q) = <<OnlyOne(a)>>
         \/ \E a \in Admins : Tail(q) = <<Stamp(a)>>
  BY PlanHead
<1>2. PICK f : f.op = "fail" /\ (rest = <<f>> \/ rest = <<Await, f>>)
  BY DEF Failing, Fail
<1>3. \A x, y : /\ <<x>> = <<y>> => x = y
               /\ <<Await, x>> = <<Await, y>> => x = y
               /\ <<Await, x>> # <<y>> /\ <<>> # <<x>> /\ <<>> # <<Await, x>>
  OBVIOUS
<1>4. CASE s.op = "only"
  <2>1. rest \in {<<>>, <<TakeBack(s.admin)>>}
    BY <1>4 DEF AdminThen
  <2> QED
    BY <1>2, <1>3, <2>1 DEF TakeBack
<1>5. CASE s.op = "stamp"
  <2>1. rest = <<Await, Record(s.admin, now)>>
    BY <1>5 DEF AdminThen
  <2> QED
    BY <1>2, <1>3, <2>1 DEF Record
<1>6. CASE s.op = "create"
  <2>1. rest \in {<<>>, <<Await, AddAdmin(s.admin, s.role)>>}
    BY <1>6 DEF AdminThen
  <2> QED
    BY <1>2, <1>3, <2>1 DEF AddAdmin
<1>7. CASE s.op = "patch"
  <2> DEFINE d == Demote(admins[s.me].role, s.admin, s.role, admins[s.admin].role)
  <2>1. rest \in {<<>>, <<Await>> \o <<d>>, <<>> \o <<d>>}
    BY <1>7 DEF AdminThen
  <2>2. d.op = "demote"
    BY DEF Demote
  <2> HIDE DEF d
  <2>3. rest \in {<<>>, <<Await, d>>, <<d>>}
    BY <2>1
  <2> QED
    BY <1>2, <1>3, <2>2, <2>3
<1>8. CASE s.op = "demote"
  <2>1. rest \in {<<>>, <<SetRole(s.admin, s.role, s.was)>>}
    BY <1>8 DEF AdminThen
  <2> QED
    BY <1>2, <1>3, <2>1 DEF SetRole
<1>9. CASE s.op = "delete"
  <2>1. rest \in {<<>>, <<DropAdmin(s.admin)>>}
    BY <1>9 DEF AdminThen
  <2> QED
    BY <1>2, <1>3, <2>1 DEF DropAdmin
<1>10. CASE s.op \notin {"only", "stamp", "create", "patch", "demote", "delete"}
  <2>1. rest = Tail(q)
    BY <1>10 DEF AdminThen
  <2>2. \A a : OnlyOne(a).op = "only" /\ Stamp(a).op = "stamp"
    BY DEF OnlyOne, Stamp
  <2>3. ASSUME NEW x, rest = <<x>>, x.op \in {"only", "stamp"}
        PROVE  FALSE
    BY <1>2, <1>3, <2>3
  <2>4. rest # <<>>
    BY <1>2, <1>3
  <2> QED
    BY <1>1, <2>1, <2>2, <2>3, <2>4
<1> QED
  BY <1>4, <1>5, <1>6, <1>7, <1>8, <1>9, <1>10

LEMMA Counts ==
  ASSUME AdminsInv, NEW a \in Admins
  PROVE  /\ IsFiniteSet(Recent(a)) /\ Cardinality(Recent(a)) \in Nat
         /\ IsFiniteSet(InFlight(a)) /\ Cardinality(InFlight(a)) \in Nat
         /\ Cardinality(InFlight(a)) <= Cardinality(Requests)
         /\ Cardinality(Requests) \in Nat /\ MostFailures \in Nat
<1>1. Len(failures[a]) \in Nat /\ DOMAIN failures[a] = 1 .. Len(failures[a])
  BY DEF AdminsInv
<1>2. IsFiniteSet(Recent(a))
  <2>1. IsFiniteSet(DOMAIN failures[a])
    BY <1>1, FS_Interval
  <2> QED
    BY <2>1, FS_Subset DEF Recent
<1>3. IsFiniteSet(InFlight(a)) /\ Cardinality(InFlight(a)) <= Cardinality(Requests)
  BY FS_Subset, LoopAssumption DEF InFlight
<1>4. Cardinality(Requests) \in Nat /\ MostFailures \in Nat
  BY FS_CardinalityType, LoopAssumption, AdminsAssumption DEF MostFailures
<1> QED
  BY <1>2, <1>3, <1>4, FS_CardinalityType

(* Steps that write no failure.                                            *)
LEMMA LockKeeps ==
  ASSUME LockInv, AdminsInv', failures' = failures, now' \in {now, now + 1},
         \A a \in Admins, r \in Requests : Failing(todo'[r], a) =>
           Failing(todo[r], a) \/ ~ LockedOut(a)
  PROVE  LockInv'
<1>1. now \in Nat /\ failures \in [Admins -> Seq(Nat)]
  BY DEF LockInv, AdminsInv
<1>2. \A a \in Admins : \A n \in DOMAIN failures[a] :
        failures[a][n] \in Nat /\ failures[a][n] <= now
  BY <1>1 DEF LockInv
<1>3. \A a \in Admins : \A n \in DOMAIN failures[a] : failures[a][n] <= now'
  BY <1>1, <1>2
<1>4. ASSUME NEW a \in Admins
      PROVE  Cardinality(Recent(a)') + Cardinality(InFlight(a)') <= MostFailures
  <2>1. Recent(a)' \subseteq Recent(a)
    BY <1>1, <1>2, AdminsAssumption DEF Recent
  <2>2. /\ IsFiniteSet(Recent(a)) /\ Cardinality(Recent(a)) \in Nat
        /\ IsFiniteSet(InFlight(a)) /\ Cardinality(InFlight(a)) \in Nat
        /\ Cardinality(Requests) \in Nat /\ MostFailures \in Nat
    BY Counts DEF LockInv
  <2>3. Cardinality(Recent(a)') \in Nat /\ Cardinality(Recent(a)') <= Cardinality(Recent(a))
    BY <2>1, <2>2, FS_Subset, FS_CardinalityType
  <2>4. InFlight(a)' \subseteq Requests
    BY DEF InFlight
  <2>5. /\ Cardinality(InFlight(a)') \in Nat
        /\ Cardinality(InFlight(a)') <= Cardinality(Requests)
    BY <2>4, FS_Subset, FS_CardinalityType, LoopAssumption
  <2>6. CASE LockedOut(a)
    <3>1. InFlight(a)' \subseteq InFlight(a)
      BY <2>6 DEF InFlight, Failing, Fail
    <3>2. Cardinality(InFlight(a)') <= Cardinality(InFlight(a))
      BY <2>2, <3>1, FS_Subset
    <3> QED
      BY <2>2, <2>3, <2>5, <3>2 DEF LockInv
  <2>7. CASE ~ LockedOut(a)
    BY <2>2, <2>3, <2>5, <2>7, AdminsAssumption DEF LockedOut, MostFailures
  <2> QED
    BY <2>6, <2>7
<1>5. LockoutBound'
  BY DEF LockInv, LockoutBound
<1> QED
  BY <1>3, <1>4, <1>5 DEF LockInv, MostFailures

(* A failure that is written.                                              *)
LEMMA LockFails ==
  ASSUME LockInv, AdminsInv', NEW a \in Admins, NEW r \in Requests,
         failures' = [failures EXCEPT ![a] = Append(failures[a], now)], now' = now,
         Failing(todo[r], a), todo'[r] = <<>>, \A s \in Requests \ {r} : todo'[s] = todo[s]
  PROVE  LockInv'
<1> DEFINE f == failures[a]
           g == failures'[a]
           k == Len(f) + 1
<1>1. now \in Nat /\ f \in Seq(Nat) /\ failures \in [Admins -> Seq(Nat)]
  BY DEF LockInv, AdminsInv
<1>2. g = Append(f, now) /\ \A b \in Admins \ {a} : failures'[b] = failures[b]
  BY <1>1
<1>3. /\ DOMAIN f = 1 .. Len(f) /\ DOMAIN g = 1 .. k /\ k \in Nat /\ k \notin DOMAIN f
      /\ g[k] = now /\ \A n \in DOMAIN f : g[n] = f[n] /\ f[n] \in Nat /\ f[n] <= now
  BY <1>1, <1>2 DEF LockInv
<1>4. \A n \in DOMAIN g : g[n] \in Nat /\ g[n] <= now /\ (n \in DOMAIN f \/ n = k)
  BY <1>1, <1>3
<1>5. \A b \in Admins : \A n \in DOMAIN failures'[b] : failures'[b][n] <= now'
  BY <1>2, <1>4 DEF LockInv
<1>6. \A b \in Admins : /\ IsFiniteSet(Recent(b)) /\ Cardinality(Recent(b)) \in Nat
                        /\ IsFiniteSet(InFlight(b)) /\ Cardinality(InFlight(b)) \in Nat
                        /\ MostFailures \in Nat
  BY Counts DEF LockInv
<1>7. Recent(a)' = Recent(a) \cup {k}
  BY <1>1, <1>3, <1>4, AdminsAssumption DEF Recent
<1>8. k \notin Recent(a)
  BY <1>3 DEF Recent
<1>9. /\ IsFiniteSet(Recent(a)') /\ Cardinality(Recent(a)') = Cardinality(Recent(a)) + 1
  BY <1>6, <1>7, <1>8, FS_AddElement
<1>10. /\ \A b : ~ Failing(<<>>, b)
       /\ r \in InFlight(a)
  BY DEF Failing, InFlight
<1>11. InFlight(a)' = InFlight(a) \ {r}
  BY <1>10 DEF InFlight, Failing, Fail
<1>12. Cardinality(InFlight(a)') = Cardinality(InFlight(a)) - 1
  BY <1>6, <1>10, <1>11, FS_RemoveElement
<1>13. Cardinality(Recent(a)') + Cardinality(InFlight(a)') <= MostFailures
  BY <1>6, <1>9, <1>12 DEF LockInv
<1>14. ASSUME NEW b \in Admins \ {a}
       PROVE  Cardinality(Recent(b)') + Cardinality(InFlight(b)') <= MostFailures
  <2>1. Recent(b)' = Recent(b)
    BY <1>2 DEF Recent
  <2>2. InFlight(b)' \subseteq InFlight(b)
    BY <1>10 DEF InFlight, Failing, Fail
  <2>3. /\ Cardinality(InFlight(b)') <= Cardinality(InFlight(b))
        /\ Cardinality(InFlight(b)') \in Nat
    BY <1>6, <2>2, FS_Subset, FS_CardinalityType
  <2> QED
    BY <1>6, <2>1, <2>3 DEF LockInv
<1>15. ASSUME NEW b \in Admins, NEW n \in DOMAIN failures'[b]
       PROVE  Cardinality({m \in DOMAIN failures'[b] :
                failures'[b][m] \in (failures'[b][n] - Lockout)..failures'[b][n]})
                  <= MaxFailures + Cardinality(Requests) - 1
  <2>1. CASE b # a
    BY <1>2, <2>1 DEF LockInv, LockoutBound
  <2>2. CASE b = a /\ g[n] = now
    <3> DEFINE W == {m \in DOMAIN g : g[m] \in (g[n] - Lockout)..g[n]}
    <3>1. W \subseteq Recent(a)'
      BY <1>1, <1>4, <2>2, AdminsAssumption DEF Recent
    <3>2. Cardinality(W) <= Cardinality(Recent(a)') /\ Cardinality(W) \in Nat
      BY <1>9, <3>1, FS_Subset, FS_CardinalityType
    <3>3. InFlight(a)' \subseteq Requests
      BY DEF InFlight
    <3>4. Cardinality(InFlight(a)') \in Nat
      BY <3>3, FS_Subset, FS_CardinalityType, LoopAssumption
    <3>5. Cardinality(Recent(a)') \in Nat /\ MostFailures \in Nat
      BY <1>6, <1>9
    <3>6. Cardinality(Recent(a)') <= MostFailures
      BY <1>13, <3>4, <3>5
    <3> HIDE DEF W
    <3>7. Cardinality(W) <= MostFailures
      BY <3>2, <3>5, <3>6
    <3> QED
      BY <2>2, <3>7 DEF MostFailures, W
  <2>3. CASE b = a /\ g[n] # now
    <3>1. n \in DOMAIN f /\ g[n] = f[n] /\ f[n] \in Nat /\ f[n] < now
      BY <1>1, <1>3, <1>4, <2>3
    <3>2. {m \in DOMAIN g : g[m] \in (g[n] - Lockout)..g[n]}
            = {m \in DOMAIN f : f[m] \in (f[n] - Lockout)..f[n]}
      BY <1>1, <1>3, <1>4, <3>1, AdminsAssumption
    <3> QED
      BY <2>3, <3>1, <3>2 DEF LockInv, LockoutBound
  <2> QED
    BY <2>1, <2>2, <2>3
<1>16. LockoutBound'
  BY <1>15 DEF LockoutBound
<1> QED
  BY <1>5, <1>13, <1>14, <1>16 DEF LockInv, MostFailures

LEMMA LockForgives ==
  ASSUME LockInv, AdminsInv', NEW a \in Admins, failures' = [failures EXCEPT ![a] = <<>>],
         now' = now, \A b \in Admins, r \in Requests : Failing(todo'[r], b) => Failing(todo[r], b)
  PROVE  LockInv'
<1>1. /\ failures'[a] = <<>> /\ \A b \in Admins \ {a} : failures'[b] = failures[b]
      /\ now \in Nat
  BY DEF LockInv, AdminsInv
<1>2. \A b \in Admins : \A n \in DOMAIN failures'[b] : failures'[b][n] <= now'
  BY <1>1 DEF LockInv
<1>3. \A b \in Admins : /\ IsFiniteSet(InFlight(b)) /\ Cardinality(InFlight(b)) \in Nat
                        /\ Cardinality(InFlight(b)) <= Cardinality(Requests)
                        /\ Cardinality(Requests) \in Nat
                        /\ IsFiniteSet(Recent(b)) /\ Cardinality(Recent(b)) \in Nat
                        /\ MostFailures \in Nat
  BY Counts DEF LockInv
<1>4. \A b \in Admins : InFlight(b)' \subseteq InFlight(b)
  BY DEF InFlight, Failing, Fail
<1>5. \A b \in Admins : /\ Cardinality(InFlight(b)') \in Nat
                        /\ Cardinality(InFlight(b)') <= Cardinality(InFlight(b))
  BY <1>3, <1>4, FS_Subset, FS_CardinalityType
<1>6. Cardinality(Recent(a)') + Cardinality(InFlight(a)') <= MostFailures
  <2>1. Recent(a)' = {}
    BY <1>1 DEF Recent
  <2>2. Cardinality(Recent(a)') = 0
    BY <2>1, FS_EmptySet
  <2> QED
    BY <1>3, <1>5, <2>2, AdminsAssumption DEF MostFailures
<1>7. ASSUME NEW b \in Admins \ {a}
      PROVE  Cardinality(Recent(b)') + Cardinality(InFlight(b)') <= MostFailures
  <2>1. Recent(b)' = Recent(b)
    BY <1>1 DEF Recent
  <2> QED
    BY <1>3, <1>5, <2>1 DEF LockInv
<1>8. ASSUME NEW b \in Admins, NEW n \in DOMAIN failures'[b]
      PROVE  Cardinality({m \in DOMAIN failures'[b] :
               failures'[b][m] \in (failures'[b][n] - Lockout)..failures'[b][n]})
                 <= MaxFailures + Cardinality(Requests) - 1
  <2>1. b # a
    BY <1>1, <1>8
  <2>2. failures'[b] = failures[b]
    BY <1>1, <2>1
  <2> QED
    BY <2>2 DEF LockInv, LockoutBound
<1>9. LockoutBound'
  BY <1>8 DEF LockoutBound
<1> QED
  BY <1>2, <1>6, <1>7, <1>9 DEF LockInv, MostFailures

LEMMA LockStep ==
  ASSUME LockInv, [AdminsNext]_adminVars
  PROVE  LockInv'
<1>1. AdminsInv' /\ AdminsInv
  BY AdminsStep DEF LockInv
<1>2. CASE \E r \in Requests : AdminStatement(r)
  <2>1. PICK r \in Requests : AdminStatement(r)
    BY <1>2
  <2>2. PICK s : s = Head(todo[r])
    OBVIOUS
  <2>3. PICK rest : rest = AdminThen(s, Tail(todo[r]))
    OBVIOUS
  <2>4. /\ s \in Steps /\ todo'[r] = rest
        /\ \A t \in Requests \ {r} : todo'[t] = todo[t]
        /\ s.op \notin {"add", "forgive"} => todo[r] = <<s>>
    BY <1>1, <2>1, <2>2, <2>3, AdminStatementKeeps
  <2>5. /\ Plan(todo[r]) /\ todo[r] # <<>> /\ Head(todo[r]).op # "await"
        /\ failures' = FailuresAfter(s) /\ now' = now
    BY <1>1, <2>1, <2>2 DEF AdminStatement, AdminsInv, LoopInv, clockVars
  <2>6. \A b : ~ Failing(rest, b)
    BY <2>2, <2>3, <2>5, ThensFail
  <2>7. \A b \in Admins, t \in Requests : Failing(todo'[t], b) => Failing(todo[t], b)
    BY <2>4, <2>6
  <2>8. CASE s.op = "fail"
    <3>1. s.admin \in Admins /\ s = Fail(s.admin) /\ todo[r] = <<s>>
      BY <2>4, <2>8 DEF Steps, Fail
    <3>2. failures' = [failures EXCEPT ![s.admin] = Append(failures[s.admin], now)]
      BY <2>5, <2>8 DEF FailuresAfter
    <3>3. rest = <<>>
      BY <2>3, <2>8, <3>1 DEF AdminThen
    <3> QED
      BY <1>1, <2>4, <2>5, <3>1, <3>2, <3>3, LockFails DEF Failing
  <2>9. CASE s.op = "forgive"
    <3>1. s.admin \in Admins
      BY <2>4, <2>9 DEF Steps
    <3>2. failures' = [failures EXCEPT ![s.admin] = <<>>]
      BY <2>5, <2>9 DEF FailuresAfter
    <3> QED
      BY <1>1, <2>5, <2>7, <3>1, <3>2, LockForgives
  <2>10. CASE s.op \notin {"fail", "forgive"}
    <3>1. failures' = failures
      BY <2>5, <2>10 DEF FailuresAfter
    <3> QED
      BY <1>1, <2>5, <2>7, <3>1, LockKeeps
  <2> QED
    BY <2>8, <2>9, <2>10
<1>3. CASE \E r \in Requests : AdminContinue(r)
  <2>1. PICK r \in Requests : AdminContinue(r)
    BY <1>3
  <2>2. /\ Later(todo[r]) /\ todo'[r] = Tail(todo[r])
        /\ \A s \in Requests \ {r} : todo'[s] = todo[s]
    BY <1>1, <2>1, AdminContinueKeeps
  <2>3. failures' = failures /\ now' = now
    BY <2>1 DEF AdminContinue, adminTables, clockVars
  <2>4. ASSUME NEW b \in Admins, Failing(todo'[r], b)
        PROVE  Failing(todo[r], b)
    <3>1. PICK f : f = Fail(b)
      OBVIOUS
    <3>2. todo'[r] = <<f>> \/ todo'[r] = <<Await, f>>
      BY <2>4, <3>1 DEF Failing
    <3>3. f # Await
      BY <3>1 DEF Fail, Await
    <3>4. ASSUME NEW t, todo[r] = <<Await, t>>
          PROVE  todo[r] = <<Await, f>>
      BY <2>2, <3>2, <3>4
    <3>5. ASSUME NEW t, NEW u, todo[r] = <<Await, t, u>>
          PROVE  t = Await
      BY <2>2, <3>2, <3>5
    <3>6. \A c : AddAdmin(c, "owner") # Await /\ Forgive(c) # Await
      BY DEF AddAdmin, Forgive, Await
    <3> QED
      BY <2>2, <3>1, <3>4, <3>5, <3>6 DEF Later, Failing
  <2>5. \A b \in Admins, t \in Requests : Failing(todo'[t], b) => Failing(todo[t], b)
    BY <2>2, <2>4
  <2> QED
    BY <1>1, <2>3, <2>5, LockKeeps
<1>4. CASE \E r \in Requests : Arrives(r)
  <2>1. PICK r \in Requests : Arrives(r)
    BY <1>4
  <2>2. PICK q : Opens(r, q) /\ \A a \in Admins : q = <<Await, Fail(a)>> => ~ LockedOut(a)
    BY <1>1, <2>1, ArrivalsOpen
  <2>3. todo'[r] = q /\ \A s \in Requests \ {r} : todo'[s] = todo[s]
    BY <1>1, <2>2, OpensKeeps
  <2>4. failures' = failures /\ now' = now /\ Later(q)
    BY <2>2 DEF Opens, adminTables, clockVars
  <2>5. \A b : q # <<Fail(b)>>
    <3>1. Len(q) # 1 /\ \A x : Len(<<x>>) = 1
      BY <2>4, NotOne
    <3> QED
      BY <3>1
  <2>6. \A b \in Admins, t \in Requests : Failing(todo'[t], b) =>
          Failing(todo[t], b) \/ ~ LockedOut(b)
    BY <2>2, <2>3, <2>5 DEF Failing
  <2> QED
    BY <1>1, <2>4, <2>6, LockKeeps
<1>5. CASE \E p \in Procs : AdminCrash(p)
  <2>1. PICK p \in Procs : AdminCrash(p)
    BY <1>5
  <2>2. \A r \in Requests : todo'[r] = <<>> \/ todo'[r] = todo[r]
    BY <1>1, <2>1, AdminCrashKeeps
  <2>3. failures' = failures /\ now' = now
    BY <2>1 DEF AdminCrash, CrashLoop, adminTables
  <2>4. \A b : ~ Failing(<<>>, b)
    BY DEF Failing
  <2>5. \A b \in Admins, t \in Requests : Failing(todo'[t], b) => Failing(todo[t], b)
    BY <2>2, <2>4
  <2> QED
    BY <1>1, <2>3, <2>5, LockKeeps
<1>6. CASE AdminTick \/ UNCHANGED adminVars
  <2>1. todo' = todo /\ failures' = failures /\ now' \in {now, now + 1}
    BY <1>6 DEF AdminTick, Tick, adminVars, adminTables, clockVars, loopVars
  <2> QED
    BY <1>1, <2>1, LockKeeps
<1> QED
  BY <1>2, <1>3, <1>4, <1>5, <1>6, AdminsSteps

LEMMA LockStart ==
  AdminsInit => LockInv
<1> SUFFICES ASSUME AdminsInit
             PROVE  LockInv
  OBVIOUS
<1>1. AdminsInv
  BY AdminsStart
<1>2. failures = [a \in Admins |-> <<>>] /\ todo = [r \in Requests |-> <<>>]
  BY DEF AdminsInit, LoopInit
<1>3. \A a \in Admins : Recent(a) = {} /\ InFlight(a) = {}
  BY <1>2 DEF Recent, InFlight, Failing
<1>4. \A a \in Admins : Cardinality(Recent(a)) = 0 /\ Cardinality(InFlight(a)) = 0
  BY <1>3, FS_EmptySet
<1>5. \A a \in Admins : Cardinality(Recent(a)) + Cardinality(InFlight(a)) <= MostFailures
  BY <1>1, <1>4, Counts
<1>6. LockoutBound
  BY <1>2 DEF LockoutBound
<1> QED
  BY <1>1, <1>2, <1>5, <1>6 DEF LockInv

(* One setup is answered with an account, while no admin is deleted: when  *)
(* all are, another setup is due.                                          *)
Undeleted == \A r \in Requests : todo[r] # <<>> => Head(todo[r]).op # "drop"
Settled(a) == admins[a].in = "yes" /\ \A r \in Requests : ~ Mentions(todo[r], Claims, a)
SetupInv ==
  /\ AdminsInv
  /\ setups # {} => \E a \in Admins : Settled(a)
  /\ \A r, s \in setups : r = s

LEMMA SettledStays ==
  ASSUME AdminsInv, [AdminsNext]_adminVars, Undeleted, NEW a \in Admins, Settled(a)
  PROVE  Settled(a)'
<1>1. CASE \E r \in Requests : AdminStatement(r)
  <2>1. PICK r \in Requests : AdminStatement(r)
    BY <1>1
  <2>2. PICK s : s = Head(todo[r])
    OBVIOUS
  <2>3. PICK rest : rest = AdminThen(s, Tail(todo[r]))
    OBVIOUS
  <2>4. /\ s \in Steps /\ todo'[r] = rest
        /\ \A t \in Requests \ {r} : todo'[t] = todo[t]
    BY <2>1, <2>2, <2>3, AdminStatementKeeps
  <2>5. /\ Plan(todo[r]) /\ todo[r] # <<>> /\ Head(todo[r]).op # "await"
        /\ admins' = AdminsAfter(s) /\ admins \in Rows /\ now \in Nat /\ s.op # "drop"
    BY <2>1, <2>2 DEF AdminStatement, AdminsInv, LoopInv, RowsInv, Rows, Undeleted
  <2>6. ~ Mentions(rest, Claims, a)
    BY <2>2, <2>3, <2>5, Thens DEF Settled, Rows
  <2>7. ~ (s.op \in {"add", "back"} /\ s.admin = a)
    BY <2>2, <2>5 DEF Settled, Mentions, Claims, AdminsInv, LoopInv
  <2>8. admins'[a].in = admins[a].in
    BY <2>4, <2>5, <2>7, RowsAfter
  <2> QED
    BY <2>4, <2>6, <2>8 DEF Settled, Mentions, Claims
<1>2. CASE \E r \in Requests : AdminContinue(r)
  <2>1. PICK r \in Requests : AdminContinue(r)
    BY <1>2
  <2>2. /\ todo'[r] = Tail(todo[r]) /\ \A s \in Requests \ {r} : todo'[s] = todo[s]
    BY <2>1, AdminContinueKeeps
  <2>3. Plan(todo[r]) /\ todo[r] # <<>> /\ Head(todo[r]).op = "await" /\ admins' = admins
    BY <2>1 DEF AdminContinue, Resume, Next1, AdminsInv, LoopInv, adminTables
  <2>4. ~ Mentions(Tail(todo[r]), Claims, a)
    BY <2>3, PlanAwait DEF Settled
  <2> QED
    BY <2>2, <2>3, <2>4 DEF Settled, Mentions, Claims
<1>3. CASE \E r \in Requests : Arrives(r)
  <2>1. PICK r \in Requests : Arrives(r)
    BY <1>3
  <2>2. PICK q : Opens(r, q)
    BY <2>1, ArrivalsOpen
  <2>3. todo'[r] = q /\ \A s \in Requests \ {r} : todo'[s] = todo[s]
    BY <2>2, OpensKeeps
  <2>4. ~ Mentions(q, Claims, a) /\ admins' = admins
    BY <2>2 DEF Opens, Unused, Settled, adminTables
  <2> QED
    BY <2>3, <2>4 DEF Settled, Mentions, Claims
<1>4. CASE \E p \in Procs : AdminCrash(p)
  <2>1. PICK p \in Procs : AdminCrash(p)
    BY <1>4
  <2>2. \A r \in Requests : todo'[r] = <<>> \/ todo'[r] = todo[r]
    BY <2>1, AdminCrashKeeps
  <2> QED
    BY <2>1, <2>2 DEF Settled, Mentions, Claims, AdminCrash, adminTables
<1>5. CASE AdminTick \/ UNCHANGED adminVars
  BY <1>5, TickKeeps DEF Settled, Mentions, Claims
<1> QED
  BY <1>1, <1>2, <1>3, <1>4, <1>5, AdminsSteps

LEMMA SetupStep ==
  ASSUME SetupInv, [AdminsNext]_adminVars, Undeleted
  PROVE  SetupInv'
<1>1. AdminsInv' /\ AdminsInv
  BY AdminsStep DEF SetupInv
<1>2. CASE setups' = setups
  <2>1. setups # {} => \E a \in Admins : Settled(a)'
    BY <1>1, SettledStays DEF SetupInv
  <2> QED
    BY <1>1, <1>2, <2>1 DEF SetupInv
<1>3. CASE setups' # setups
  <2>1. PICK r \in Requests : AdminStatement(r)
    BY <1>3, AdminsSteps DEF AdminContinue, Arrives, Setup, SignIns, AdminLogin, Management,
          CreateAdmin, PatchAdmin, DeleteAdmin, Credentials, RevokeSession, ForceLogoutAll,
          MintApiToken, CommandLine, Gated, AdminHandle, AdminCrash, AdminTick, adminTables,
          adminVars
  <2>2. PICK s : s = Head(todo[r])
    OBVIOUS
  <2>3. PICK rest : rest = AdminThen(s, Tail(todo[r]))
    OBVIOUS
  <2>4. /\ s \in Steps /\ todo'[r] = rest
        /\ \A t \in Requests \ {r} : todo'[t] = todo[t]
        /\ s.op \notin {"add", "forgive"} => todo[r] = <<s>>
    BY <1>1, <2>1, <2>2, <2>3, AdminStatementKeeps
  <2>5. setups' = SetupsAfter(s, r) /\ admins' = AdminsAfter(s)
    BY <2>1, <2>2 DEF AdminStatement
  <2>6. s.op = "only" /\ AdminRows = {s.admin} /\ setups' = setups \cup {r}
    BY <1>3, <2>5 DEF SetupsAfter
  <2>7. s.admin \in Admins /\ todo[r] = <<s>> /\ Mentions(todo[r], Claims, s.admin)
    BY <2>4, <2>6 DEF Steps, Mentions, Claims
  <2>8. \A a \in Admins : Settled(a) => a = s.admin
    BY <2>6 DEF Settled, AdminRows, AdminExists
  <2>9. setups = {}
    BY <2>7, <2>8 DEF SetupInv, Settled
  <2>10. rest = <<>> /\ admins' = admins
    BY <2>3, <2>5, <2>6 DEF AdminThen, AdminsAfter
  <2>11. \A t \in Requests \ {r} : ~ Mentions(todo[t], Claims, s.admin)
    BY <1>1, <2>7 DEF AdminsInv, LoopInv
  <2>12. Settled(s.admin)'
    <3>1. ~ Mentions(rest, Claims, s.admin)
      BY <2>10 DEF Mentions
    <3>2. admins'[s.admin].in = "yes"
      BY <2>6, <2>10 DEF AdminRows, AdminExists
    <3> QED
      BY <2>4, <2>11, <3>1, <3>2 DEF Settled, Mentions, Claims
  <2> QED
    BY <1>1, <2>6, <2>7, <2>9, <2>12 DEF SetupInv
<1> QED
  BY <1>2, <1>3

LEMMA SetupsOnce ==
  ASSUME SetupInv
  PROVE  SetupOnce
<1>1. CASE setups = {}
  BY <1>1, FS_EmptySet DEF SetupOnce
<1>2. CASE setups # {}
  <2>1. PICK r : setups = {r}
    BY <1>2 DEF SetupInv
  <2>2. Cardinality(setups) = 1
    BY <2>1, FS_Singleton
  <2> QED
    BY <2>2 DEF SetupOnce
<1> QED
  BY <1>1, <1>2

(* The guards of the way in, for any admins, processes, requests, limits   *)
(* and crashes: the failures of one window pass the lockout's limit by the *)
(* other requests in flight at most, and of setups that race, while no     *)
(* admin is deleted, one is answered with an account.                      *)
THEOREM EntryAlwaysGuarded ==
  AdminsSpec /\ []Undeleted => []EntryGuarded
<1>1. AdminsInit => LockInv /\ SetupInv
  BY LockStart, AdminsStart DEF AdminsInit, SetupInv
<1>2. LockInv /\ [AdminsNext]_adminVars => LockInv'
  BY LockStep
<1>3. SetupInv /\ Undeleted /\ [AdminsNext]_adminVars => SetupInv'
  BY SetupStep
<1>4. LockInv /\ SetupInv => EntryGuarded
  BY SetupsOnce DEF EntryGuarded, LockInv
<1> QED
  BY <1>1, <1>2, <1>3, <1>4, PTL DEF AdminsSpec

-----------------------------------------------------------------------------
(* What the handlers of Accounts have still to do *)

UserRows ==
  [in : {"no", "yes", "gone"}, email : Emails \cup {NoOne}, pw : Passwords \cup {NoOne},
   verified : BOOLEAN, anon : BOOLEAN, secret : BOOLEAN, enabled : BOOLEAN, resetAt : Nat]
TicketRows ==
  [user : Users, purpose : Purposes, identity : Identities \cup {NoOne}, expires : Nat,
   used : BOOLEAN, attempts : Nat]
CodeRows == [user : Users \cup {NoOne}, row : {"new", "live", "used", "gone"}, lookup : BOOLEAN]
TokenRows == [user : Users, iat : Nat, exp : Nat, collection : BOOLEAN]

Acts ==
  [op : {"issue"}, user : Users, purpose : Purposes, identity : Identities \cup {NoOne}]
    \cup [op : {"use"}, ticket : Nat]
    \cup [op : {"attempt"}, ticket : Nat, n : Nat]
    \cup [op : {"sign"}, user : Users, collection : BOOLEAN]
    \cup [op : {"revoke"}, token : Nat]
    \cup [op : {"verified", "passkey"}, user : Users]
    \cup [op : {"reset"}, user : Users, pw : Passwords, at : Nat]
    \cup [op : {"totp"}, user : Users, secret : BOOLEAN, enabled : BOOLEAN]
    \cup [op : {"promote"}, user : Users, email : Emails, pw : Passwords]
    \cup [op : {"insert"}, user : Users, row : {x \in UserRows : x.in = "yes"}]
    \cup [op : {"link"}, identity : Identities \cup {NoOne}, user : Users]
    \cup [op : {"unlink"}, identity : Identities]
    \cup [op : {"spend", "unlook", "lookup"}, code : Codes]
    \cup [op : {"wipe"}, user : Users, lookups : BOOLEAN]
    \cup [op : {"mint"}, code : Codes, user : Users]
    \cup [op : {"match"}, ticket : Nat, code : Codes, n : Nat]
    \cup [op : {"profile"}, identity : Identities, email : Emails, verified : BOOLEAN]
Plans == Seq(Acts \cup {Await})

Known == {u \in Users : users[u].in # "no"}
Fresh == {c \in Codes : codes[c].row = "new"}
Over == {k \in DOMAIN tickets : tickets[k].used} \cup {c \in Codes : codes[c].row \in {"used", "gone"}}

(* A list of statements that finds what it needs when it gets there, when  *)
(* the users B were ever in, the codes F are new, and the tickets K issued. *)
Makes(s) == s.op \in {"insert", "profile"}
Sound(q, B, F, K) ==
  /\ \A n \in DOMAIN q : q[n].op \in {"issue", "sign", "link"} =>
       \/ q[n].user \in B
       \/ \E m \in DOMAIN q : m < n /\ q[m].op = "insert" /\ q[m].user = q[n].user
  /\ \A n \in DOMAIN q : q[n].op = "insert" => q[n].user \notin B
  /\ \A n \in DOMAIN q : q[n].op \in {"match", "profile"} => n = Len(q)
  /\ \A n, m \in DOMAIN q : Makes(q[n]) /\ Makes(q[m]) => n = m
  /\ \A n \in DOMAIN q : Makes(q[n]) => n <= 2
  /\ \A n \in DOMAIN q : q[n].op = "spend" => q[n].code \notin F
  /\ \A n \in DOMAIN q : q[n].op = "mint" => q[n].code \in F
  /\ \A n, m \in DOMAIN q :
       q[n].op = "mint" /\ q[m].op = "mint" /\ q[n].code = q[m].code => n = m
  /\ \A n \in DOMAIN q : q[n].op = "match" => q[n].ticket \in K

(* No two requests make the same account or the same code.                 *)
Apart(q, p) ==
  \A n \in DOMAIN q, m \in DOMAIN p :
    /\ ~ (q[n].op = "insert" /\ p[m].op = "insert" /\ q[n].user = p[m].user)
    /\ ~ (q[n].op = "mint" /\ p[m].op = "mint" /\ q[n].code = p[m].code)

(* What lets a request in is used up, or the request will still use it up. *)
Spends(s, x) == \/ s.op \in {"use", "match"} /\ s.ticket = x
                \/ s.op = "spend" /\ s.code = x
Admits(q, x, G) == x \in G \/ \E n \in DOMAIN q : Spends(q[n], x)

TypesInv ==
  /\ todo \in [Requests -> Plans]
  /\ users \in [Users -> UserRows]
  /\ tickets \in Seq(TicketRows)
  /\ codes \in [Codes -> CodeRows]
  /\ links \in [Identities -> Users \cup {NoOne}]
  /\ tokens \in Seq(TokenRows)
  /\ revoked \in SUBSET Nat
  /\ now \in Nat
  /\ accepted \in [Requests -> SUBSET (Nat \cup Codes)]
  /\ spent \subseteq Over

KnownInv ==
  /\ \A j \in DOMAIN tokens : tokens[j].user \in Known
  /\ \A k \in DOMAIN tickets : tickets[k].user \in Known
  /\ \A i \in Identities : links[i] \in Known \cup {NoOne}

Carriers == {r \in Requests : \E n \in DOMAIN todo[r] : Makes(todo[r][n])}

ListsInv ==
  /\ \A r \in Requests : Sound(todo[r], Known, Fresh, DOMAIN tickets)
  /\ \A r, s \in Requests : r # s => Apart(todo[r], todo[s])
  /\ \A r \in Requests : \A x \in accepted[r] : x \in DOMAIN tickets \cup Codes /\ Admits(todo[r], x, Over)
  /\ Cardinality(Carriers) <= Cardinality(Users \ Known)

AccountsInv == TypesInv /\ KnownInv /\ EmailUnique /\ ListsInv

-----------------------------------------------------------------------------
(* What the statements do *)

LEMMA ActsAre ==
  ASSUME NEW s \in Acts
  PROVE  /\ s # Await /\ s.op # "await"
         /\ s.op \in {"use", "attempt", "match"} => s.ticket \in Nat
         /\ s.op \in {"issue", "sign", "verified", "passkey", "reset", "totp", "promote", "insert",
                      "link", "wipe", "mint"} => s.user \in Users
         /\ s.op \in {"spend", "unlook", "lookup", "mint", "match"} => s.code \in Codes
         /\ s.op = "insert" => s.row \in UserRows /\ s.row.in = "yes"
         /\ s.op = "promote" => s.email \in Emails /\ s.pw \in Passwords
         /\ s.op = "reset" => s.pw \in Passwords /\ s.at \in Nat
         /\ s.op = "totp" => s.secret \in BOOLEAN /\ s.enabled \in BOOLEAN
         /\ s.op = "issue" => s.purpose \in Purposes /\ s.identity \in Identities \cup {NoOne}
         /\ s.op \in {"attempt", "match"} => s.n \in Nat
         /\ s.op = "sign" => s.collection \in BOOLEAN
         /\ s.op = "revoke" => s.token \in Nat
         /\ s.op = "link" => s.identity \in Identities \cup {NoOne}
         /\ s.op \in {"unlink", "profile"} => s.identity \in Identities
         /\ s.op = "profile" => s.email \in Emails /\ s.verified \in BOOLEAN
         /\ s.op = "wipe" => s.lookups \in BOOLEAN
  BY DEF Acts, Await

LEMMA UsersChange ==
  ASSUME NEW s \in Acts, users \in [Users -> UserRows], NEW next, next = UsersAfter(s)
  PROVE  /\ next \in [Users -> UserRows]
         /\ \A u \in Users :
              /\ s.op = "insert" /\ s.user = u => next[u] = s.row
              /\ s.op # "insert" \/ s.user # u => next[u].in = users[u].in
              /\ s.op = "promote" /\ s.user = u => next[u].email = s.email
              /\ s.op \notin {"insert", "promote"} \/ s.user # u => next[u].email = users[u].email
              /\ s.op = "reset" /\ s.user = u => next[u].resetAt = s.at
              /\ s.op \notin {"insert", "reset"} \/ s.user # u => next[u].resetAt = users[u].resetAt
<1>1. CASE s.op = "insert"
  <2>1. next = [users EXCEPT ![s.user] = s.row] /\ s.user \in Users /\ s.row \in UserRows
    BY <1>1, ActsAre DEF UsersAfter
  <2> QED
    BY <1>1, <2>1
<1>2. CASE s.op = "verified"
  <2>1. next = [users EXCEPT ![s.user].verified = TRUE] /\ s.user \in Users
    BY <1>2, ActsAre DEF UsersAfter
  <2>2. PICK v : v = [users[s.user] EXCEPT !.verified = TRUE]
    OBVIOUS
  <2>3. users[s.user] \in UserRows
    BY <2>1
  <2>4. v \in UserRows
    BY <2>2, <2>3, Zenon DEF UserRows
  <2>5. v.in = users[s.user].in /\ v.email = users[s.user].email /\ v.resetAt = users[s.user].resetAt
    BY <2>2, <2>3 DEF UserRows
  <2>6. next = [users EXCEPT ![s.user] = v]
    BY <2>1, <2>2
  <2> QED
    BY <1>2, <2>1, <2>4, <2>5, <2>6
<1>3. CASE s.op = "reset"
  <2>1. /\ next = [users EXCEPT ![s.user].pw = s.pw, ![s.user].resetAt = s.at]
        /\ s.user \in Users /\ s.pw \in Passwords /\ s.at \in Nat
    BY <1>3, ActsAre DEF UsersAfter
  <2>2. PICK v : v = [users[s.user] EXCEPT !.pw = s.pw, !.resetAt = s.at]
    OBVIOUS
  <2>3. users[s.user] \in UserRows
    BY <2>1
  <2>4. v \in UserRows
    BY <2>1, <2>2, <2>3, Zenon DEF UserRows
  <2>5. v.in = users[s.user].in /\ v.email = users[s.user].email /\ v.resetAt = s.at
    BY <2>1, <2>2, <2>3 DEF UserRows
  <2>6. next = [users EXCEPT ![s.user] = v]
    BY <2>1, <2>2
  <2> QED
    BY <1>3, <2>1, <2>4, <2>5, <2>6
<1>4. CASE s.op = "totp"
  <2>1. /\ next = [users EXCEPT ![s.user].secret = s.secret, ![s.user].enabled = s.enabled]
        /\ s.user \in Users /\ s.secret \in BOOLEAN /\ s.enabled \in BOOLEAN
    BY <1>4, ActsAre DEF UsersAfter
  <2>2. PICK v : v = [users[s.user] EXCEPT !.secret = s.secret, !.enabled = s.enabled]
    OBVIOUS
  <2>3. users[s.user] \in UserRows
    BY <2>1
  <2>4. v \in UserRows
    BY <2>1, <2>2, <2>3, Zenon DEF UserRows
  <2>5. v.in = users[s.user].in /\ v.email = users[s.user].email /\ v.resetAt = users[s.user].resetAt
    BY <2>1, <2>2, <2>3 DEF UserRows
  <2>6. next = [users EXCEPT ![s.user] = v]
    BY <2>1, <2>2
  <2> QED
    BY <1>4, <2>1, <2>4, <2>5, <2>6
<1>5. CASE s.op = "promote"
  <2>1. /\ next = [users EXCEPT ![s.user].email = s.email, ![s.user].pw = s.pw,
                                ![s.user].anon = FALSE]
        /\ s.user \in Users /\ s.email \in Emails /\ s.pw \in Passwords
    BY <1>5, ActsAre DEF UsersAfter
  <2>2. PICK v : v = [users[s.user] EXCEPT !.email = s.email, !.pw = s.pw, !.anon = FALSE]
    OBVIOUS
  <2>3. users[s.user] \in UserRows
    BY <2>1
  <2>4. v \in UserRows
    BY <2>1, <2>2, <2>3, Zenon DEF UserRows
  <2>5. v.in = users[s.user].in /\ v.email = s.email /\ v.resetAt = users[s.user].resetAt
    BY <2>1, <2>2, <2>3 DEF UserRows
  <2>6. next = [users EXCEPT ![s.user] = v]
    BY <2>1, <2>2
  <2> QED
    BY <1>5, <2>1, <2>4, <2>5, <2>6
<1>6. CASE s.op \notin {"insert", "verified", "reset", "totp", "promote"}
  BY <1>6 DEF UsersAfter
<1> QED
  BY <1>1, <1>2, <1>3, <1>4, <1>5, <1>6

LEMMA TicketsChange ==
  ASSUME NEW s \in Acts, tickets \in Seq(TicketRows), now \in Nat, NEW next, next = TicketsAfter(s)
  PROVE  /\ next \in Seq(TicketRows) /\ DOMAIN tickets \subseteq DOMAIN next
         /\ \A k \in DOMAIN tickets :
              /\ next[k].user = tickets[k].user
              /\ tickets[k].used => next[k].used
              /\ s.op = "use" /\ s.ticket = k => next[k].used
         /\ s.op # "issue" => DOMAIN next = DOMAIN tickets
         /\ s.op = "issue" => \A k \in DOMAIN next : k \in DOMAIN tickets \/ next[k].user = s.user
<1>1. CASE s.op = "issue"
  <2> DEFINE t == [user |-> s.user, purpose |-> s.purpose, identity |-> s.identity,
                   expires |-> now + TicketTtl[s.purpose], used |-> FALSE, attempts |-> 0]
  <2>1. next = Append(tickets, t)
    BY <1>1 DEF TicketsAfter, TicketsNoUse
  <2>2. TicketTtl[s.purpose] \in Nat
    BY <1>1, ActsAre, AccountsAssumption
  <2>3. t \in TicketRows /\ t.user = s.user
    BY <1>1, <2>2, ActsAre DEF TicketRows
  <2> HIDE DEF t
  <2>4. /\ next \in Seq(TicketRows) /\ Len(next) = Len(tickets) + 1
        /\ next[Len(tickets) + 1] = t /\ \A k \in 1 .. Len(tickets) : next[k] = tickets[k]
        /\ DOMAIN tickets = 1 .. Len(tickets) /\ DOMAIN next = 1 .. (Len(tickets) + 1)
        /\ Len(tickets) \in Nat
    BY <2>1, <2>3
  <2>5. \A k \in DOMAIN next : k \in DOMAIN tickets \/ k = Len(tickets) + 1
    BY <2>4
  <2> QED
    BY <1>1, <2>3, <2>4, <2>5
<1>2. ASSUME s.ticket \in DOMAIN tickets, NEW v, v \in TicketRows, v.user = tickets[s.ticket].user,
             tickets[s.ticket].used => v.used, s.op = "use" => v.used,
             next = [tickets EXCEPT ![s.ticket] = v], s.op # "issue"
      PROVE  /\ next \in Seq(TicketRows) /\ DOMAIN tickets = DOMAIN next
             /\ \A k \in DOMAIN tickets :
                  /\ next[k].user = tickets[k].user
                  /\ tickets[k].used => next[k].used
                  /\ s.op = "use" /\ s.ticket = k => next[k].used
  BY <1>2
<1>3. CASE s.op = "use" /\ s.ticket \in DOMAIN tickets
  <2>1. next = [tickets EXCEPT ![s.ticket].used = TRUE] /\ tickets[s.ticket] \in TicketRows
    BY <1>3 DEF TicketsAfter
  <2>2. PICK v : v = [tickets[s.ticket] EXCEPT !.used = TRUE]
    OBVIOUS
  <2>3. v \in TicketRows
    BY <2>1, <2>2, Zenon DEF TicketRows
  <2>4. v.user = tickets[s.ticket].user /\ v.used
    BY <2>1, <2>2 DEF TicketRows
  <2>5. next = [tickets EXCEPT ![s.ticket] = v]
    BY <2>1, <2>2
  <2> QED
    BY <1>2, <1>3, <2>3, <2>4, <2>5
<1>4. CASE s.op = "attempt" /\ s.ticket \in DOMAIN tickets
  <2>1. /\ next = [tickets EXCEPT ![s.ticket].attempts = s.n] /\ tickets[s.ticket] \in TicketRows
        /\ s.n \in Nat
    BY <1>4, ActsAre DEF TicketsAfter, TicketsNoUse
  <2>2. PICK v : v = [tickets[s.ticket] EXCEPT !.attempts = s.n]
    OBVIOUS
  <2>3. v \in TicketRows
    BY <2>1, <2>2, Zenon DEF TicketRows
  <2>4. v.user = tickets[s.ticket].user /\ v.used = tickets[s.ticket].used
    BY <2>1, <2>2 DEF TicketRows
  <2>5. next = [tickets EXCEPT ![s.ticket] = v]
    BY <2>1, <2>2
  <2> QED
    BY <1>2, <1>4, <2>3, <2>4, <2>5
<1>5. CASE s.op \in {"use", "attempt"} /\ s.ticket \notin DOMAIN tickets
  <2>1. next = tickets
    BY <1>5 DEF TicketsAfter, TicketsNoUse
  <2> QED
    BY <1>5, <2>1
<1>6. CASE s.op \notin {"issue", "use", "attempt"}
  BY <1>6 DEF TicketsAfter, TicketsNoUse
<1> QED
  BY <1>1, <1>3, <1>4, <1>5, <1>6

LEMMA CodesChange ==
  ASSUME NEW s \in Acts, codes \in [Codes -> CodeRows], NEW next, next = CodesAfter(s)
  PROVE  /\ next \in [Codes -> CodeRows]
         /\ \A c \in Codes :
              /\ s.op = "spend" /\ s.code = c => next[c].row = "used"
              /\ s.op = "mint" /\ s.code = c => next[c].row = "live"
              /\ s.op = "wipe" => next[c].row = IF c \in Held(s.user) THEN "gone" ELSE codes[c].row
              /\ s.op # "wipe" /\ (s.op \notin {"spend", "mint"} \/ s.code # c) =>
                   next[c].row = codes[c].row
<1>1. CASE s.op = "wipe"
  <2>1. next = [c \in Codes |-> IF c \in Held(s.user)
                   THEN [codes[c] EXCEPT !.row = "gone", !.lookup = codes[c].lookup /\ ~ s.lookups]
                   ELSE codes[c]]
    BY <1>1 DEF CodesAfter
  <2>2. ASSUME NEW c \in Codes
        PROVE  /\ next[c] \in CodeRows
               /\ next[c].row = IF c \in Held(s.user) THEN "gone" ELSE codes[c].row
    <3>1. codes[c] \in CodeRows /\ (codes[c].lookup /\ ~ s.lookups) \in BOOLEAN
      BY DEF CodeRows
    <3>2. PICK v : v = [codes[c] EXCEPT !.row = "gone", !.lookup = codes[c].lookup /\ ~ s.lookups]
      OBVIOUS
    <3>3. v \in CodeRows
      BY <3>1, <3>2, Zenon DEF CodeRows
    <3>4. v.row = "gone"
      BY <3>1, <3>2 DEF CodeRows
    <3> QED
      BY <2>1, <3>1, <3>2, <3>3, <3>4
  <2>3. next \in [Codes -> CodeRows]
    BY <2>1, <2>2
  <2> QED
    BY <1>1, <2>2, <2>3
<1>2. CASE s.op = "mint"
  <2>1. /\ next = [codes EXCEPT ![s.code] = [user |-> s.user, row |-> "live", lookup |-> FALSE]]
        /\ s.code \in Codes /\ s.user \in Users
    BY <1>2, ActsAre DEF CodesAfter
  <2>2. [user |-> s.user, row |-> "live", lookup |-> FALSE] \in CodeRows
    BY <2>1 DEF CodeRows
  <2> QED
    BY <1>2, <2>1, <2>2
<1>3. ASSUME s.op \in {"spend", "unlook", "lookup"}, NEW v, v \in CodeRows,
             v.row = IF s.op = "spend" THEN "used" ELSE codes[s.code].row,
             next = [codes EXCEPT ![s.code] = v]
      PROVE  /\ next \in [Codes -> CodeRows]
             /\ \A c \in Codes :
                  /\ s.op = "spend" /\ s.code = c => next[c].row = "used"
                  /\ s.op # "spend" \/ s.code # c => next[c].row = codes[c].row
  BY <1>3, ActsAre
<1>4. CASE s.op = "spend"
  <2>1. next = [codes EXCEPT ![s.code].row = "used"] /\ codes[s.code] \in CodeRows
    BY <1>4, ActsAre DEF CodesAfter
  <2>2. PICK v : v = [codes[s.code] EXCEPT !.row = "used"]
    OBVIOUS
  <2>3. v \in CodeRows
    BY <2>1, <2>2, Zenon DEF CodeRows
  <2>4. v.row = "used"
    BY <2>1, <2>2 DEF CodeRows
  <2>5. next = [codes EXCEPT ![s.code] = v]
    BY <2>1, <2>2
  <2> QED
    BY <1>3, <1>4, <2>3, <2>4, <2>5
<1>5. CASE s.op \in {"unlook", "lookup"}
  <2>1. PICK l \in BOOLEAN : next = [codes EXCEPT ![s.code].lookup = l]
    BY <1>5 DEF CodesAfter
  <2>2. PICK v : v = [codes[s.code] EXCEPT !.lookup = l]
    OBVIOUS
  <2>3. codes[s.code] \in CodeRows
    BY <1>5, ActsAre
  <2>4. v \in CodeRows
    BY <2>1, <2>2, <2>3, Zenon DEF CodeRows
  <2>5. v.row = codes[s.code].row
    BY <2>2, <2>3 DEF CodeRows
  <2>6. next = [codes EXCEPT ![s.code] = v]
    BY <2>1, <2>2
  <2> QED
    BY <1>3, <1>5, <2>4, <2>5, <2>6
<1>6. CASE s.op \notin {"wipe", "mint", "spend", "unlook", "lookup"}
  BY <1>6 DEF CodesAfter
<1> QED
  BY <1>1, <1>2, <1>4, <1>5, <1>6

LEMMA OthersChange ==
  ASSUME NEW s \in Acts, TypesInv
  PROVE  /\ LinksAfter(s) \in [Identities -> Users \cup {NoOne}]
         /\ \A i \in Identities : LinksAfter(s)[i] \in {links[i], NoOne}
                \/ (s.op = "link" /\ LinksAfter(s)[i] = s.user)
         /\ TokensAfter(s) \in Seq(TokenRows) /\ DOMAIN tokens \subseteq DOMAIN TokensAfter(s)
         /\ \A j \in DOMAIN tokens : TokensAfter(s)[j] = tokens[j]
         /\ \A j \in DOMAIN TokensAfter(s) :
              j \in DOMAIN tokens \/ (s.op = "sign" /\ TokensAfter(s)[j].user = s.user)
         /\ RevokedAfter(s) \in SUBSET Nat /\ revoked \subseteq RevokedAfter(s)
<1>1. /\ LinksAfter(s) \in [Identities -> Users \cup {NoOne}]
      /\ \A i \in Identities : LinksAfter(s)[i] \in {links[i], NoOne}
             \/ (s.op = "link" /\ LinksAfter(s)[i] = s.user)
  BY ActsAre DEF LinksAfter, TypesInv
<1>2. RevokedAfter(s) \in SUBSET Nat /\ revoked \subseteq RevokedAfter(s)
  BY ActsAre DEF RevokedAfter, TypesInv
<1>3. CASE s.op = "sign"
  <2> DEFINE t == [user |-> s.user, iat |-> now, exp |-> now + Window, collection |-> s.collection]
  <2>1. TokensAfter(s) = Append(tokens, t)
    BY <1>3 DEF TokensAfter
  <2>2. t \in TokenRows /\ t.user = s.user
    BY <1>3, ActsAre, AccountsAssumption DEF TokenRows, TypesInv
  <2> HIDE DEF t
  <2>3. tokens \in Seq(TokenRows)
    BY DEF TypesInv
  <2>4. /\ TokensAfter(s) \in Seq(TokenRows) /\ Len(tokens) \in Nat
        /\ TokensAfter(s)[Len(tokens) + 1] = t
        /\ \A k \in 1 .. Len(tokens) : TokensAfter(s)[k] = tokens[k]
        /\ DOMAIN tokens = 1 .. Len(tokens) /\ DOMAIN TokensAfter(s) = 1 .. (Len(tokens) + 1)
    BY <2>1, <2>2, <2>3
  <2>5. \A k \in DOMAIN TokensAfter(s) : k \in DOMAIN tokens \/ k = Len(tokens) + 1
    BY <2>4
  <2> QED
    BY <1>1, <1>2, <1>3, <2>2, <2>4, <2>5
<1>4. CASE s.op # "sign"
  <2>1. TokensAfter(s) = tokens /\ tokens \in Seq(TokenRows)
    BY <1>4 DEF TokensAfter, TypesInv
  <2> QED
    BY <1>1, <1>2, <2>1
<1> QED
  BY <1>3, <1>4

-----------------------------------------------------------------------------
(* Lists of statements *)

LEMMA SoundStays ==
  ASSUME NEW q, NEW B, NEW F, NEW K, NEW B2, NEW F2, NEW K2, Sound(q, B, F, K),
         B \subseteq B2, F2 \subseteq F, K \subseteq K2,
         \A n \in DOMAIN q : q[n].op = "insert" => q[n].user \notin B2,
         \A n \in DOMAIN q : q[n].op = "mint" => q[n].code \in F2
  PROVE  Sound(q, B2, F2, K2)
<1>1. \A n \in DOMAIN q : q[n].op \in {"issue", "sign", "link"} =>
        \/ q[n].user \in B2
        \/ \E m \in DOMAIN q : m < n /\ q[m].op = "insert" /\ q[m].user = q[n].user
  BY DEF Sound
<1>2. /\ \A n \in DOMAIN q : q[n].op = "spend" => q[n].code \notin F2
      /\ \A n \in DOMAIN q : q[n].op = "match" => q[n].ticket \in K2
  BY DEF Sound
<1> QED
  BY <1>1, <1>2, Zenon DEF Sound

LEMMA TailIs ==
  ASSUME NEW S, NEW q \in Seq(S), q # <<>>
  PROVE  /\ Tail(q) \in Seq(S) /\ Len(Tail(q)) = Len(q) - 1 /\ Head(q) = q[1] /\ q[1] \in S
         /\ 1 \in DOMAIN q /\ Len(q) \in Nat /\ DOMAIN q = 1 .. Len(q)
         /\ DOMAIN Tail(q) = 1 .. (Len(q) - 1)
         /\ \A n \in DOMAIN Tail(q) : n + 1 \in DOMAIN q /\ n \in Nat /\ Tail(q)[n] = q[n + 1]
         /\ \A n \in DOMAIN q : n # 1 => n - 1 \in DOMAIN Tail(q) /\ Tail(q)[n - 1] = q[n]
  OBVIOUS

LEMMA SoundTail ==
  ASSUME NEW q \in Plans, q # <<>>, NEW B, NEW F, NEW K, Sound(q, B, F, K), NEW B2, B \subseteq B2,
         q[1].op = "insert" => q[1].user \in B2,
         \A n \in DOMAIN q : n # 1 /\ q[n].op = "insert" => q[n].user \notin B2,
         NEW F2, F2 \subseteq F,
         \A n \in DOMAIN q : n # 1 /\ q[n].op = "mint" => q[n].code \in F2,
         NEW K2, K \subseteq K2
  PROVE  Sound(Tail(q), B2, F2, K2)
<1> DEFINE t == Tail(q)
<1>1. PICK p : p = t
  OBVIOUS
<1>2. /\ Len(p) = Len(q) - 1 /\ Len(q) \in Nat /\ DOMAIN q = 1 .. Len(q) /\ DOMAIN p = 1 .. (Len(q) - 1)
      /\ \A n \in DOMAIN p : n + 1 \in DOMAIN q /\ n \in Nat /\ p[n] = q[n + 1]
      /\ \A n \in DOMAIN q : n # 1 => n - 1 \in DOMAIN p /\ p[n - 1] = q[n]
  BY <1>1, TailIs DEF Plans
<1>3. ASSUME NEW n \in DOMAIN p, p[n].op \in {"issue", "sign", "link"}
      PROVE  \/ p[n].user \in B2
             \/ \E m \in DOMAIN p : m < n /\ p[m].op = "insert" /\ p[m].user = p[n].user
  <2>1. n + 1 \in DOMAIN q /\ p[n] = q[n + 1] /\ n \in Nat
    BY <1>2
  <2>2. \/ q[n + 1].user \in B
        \/ \E m \in DOMAIN q : m < n + 1 /\ q[m].op = "insert" /\ q[m].user = q[n + 1].user
    BY <1>3, <2>1 DEF Sound
  <2>3. ASSUME NEW m \in DOMAIN q, m < n + 1, q[m].op = "insert", q[m].user = q[n + 1].user, m # 1
        PROVE  m - 1 \in DOMAIN p /\ m - 1 < n /\ p[m - 1].op = "insert" /\ p[m - 1].user = p[n].user
    BY <1>2, <2>1, <2>3
  <2> QED
    BY <2>1, <2>2, <2>3
<1>4. /\ \A n \in DOMAIN p : p[n].op = "insert" => p[n].user \notin B2
      /\ \A n \in DOMAIN p : p[n].op = "mint" => p[n].code \in F2
  BY <1>2
<1>5. /\ \A n \in DOMAIN p : p[n].op \in {"match", "profile"} => n = Len(p)
      /\ \A n \in DOMAIN p : Makes(p[n]) => n <= 2
  <2>1. ASSUME NEW n \in DOMAIN p
        PROVE  /\ p[n].op \in {"match", "profile"} => n = Len(p)
               /\ Makes(p[n]) => n <= 2
    <3>1. n + 1 \in DOMAIN q /\ p[n] = q[n + 1] /\ n \in Nat
      BY <1>2
    <3>2. /\ q[n + 1].op \in {"match", "profile"} => n + 1 = Len(q)
          /\ Makes(q[n + 1]) => n + 1 <= 2
      BY <3>1 DEF Sound
    <3> QED
      BY <1>2, <3>1, <3>2
  <2> QED
    BY <2>1
<1>6. /\ \A n, m \in DOMAIN p : Makes(p[n]) /\ Makes(p[m]) => n = m
      /\ \A n, m \in DOMAIN p :
           p[n].op = "mint" /\ p[m].op = "mint" /\ p[n].code = p[m].code => n = m
  <2>1. ASSUME NEW n \in DOMAIN p, NEW m \in DOMAIN p
        PROVE  /\ Makes(p[n]) /\ Makes(p[m]) => n = m
               /\ p[n].op = "mint" /\ p[m].op = "mint" /\ p[n].code = p[m].code => n = m
    <3>1. n + 1 \in DOMAIN q /\ p[n] = q[n + 1] /\ m + 1 \in DOMAIN q /\ p[m] = q[m + 1]
          /\ n \in Nat /\ m \in Nat
      BY <1>2
    <3>2. /\ Makes(q[n + 1]) /\ Makes(q[m + 1]) => n + 1 = m + 1
          /\ q[n + 1].op = "mint" /\ q[m + 1].op = "mint" /\ q[n + 1].code = q[m + 1].code => n + 1 = m + 1
      BY <3>1 DEF Sound
    <3> QED
      BY <3>1, <3>2
  <2> QED
    BY <2>1
<1>7. /\ \A n \in DOMAIN p : p[n].op = "spend" => p[n].code \notin F2
      /\ \A n \in DOMAIN p : p[n].op = "match" => p[n].ticket \in K2
  <2>1. ASSUME NEW n \in DOMAIN p
        PROVE  /\ p[n].op = "spend" => p[n].code \notin F2
               /\ p[n].op = "match" => p[n].ticket \in K2
    <3>1. n + 1 \in DOMAIN q /\ p[n] = q[n + 1]
      BY <1>2
    <3> QED
      BY <3>1 DEF Sound
  <2> QED
    BY <2>1
<1>8. Sound(p, B2, F2, K2)
  BY <1>3, <1>4, <1>5, <1>6, <1>7, Zenon DEF Sound
<1> QED
  BY <1>1, <1>8

(* Statements that make nothing and need nothing but users who are in.     *)
Calm(B, F) ==
  {s \in Acts \cup {Await} :
     /\ s.op \notin {"insert", "profile", "match", "mint"}
     /\ s.op \in {"issue", "sign", "link"} => s.user \in B
     /\ s.op = "spend" => s.code \notin F}

LEMMA CalmSound ==
  ASSUME NEW B, NEW F, NEW K, NEW q \in Seq(Calm(B, F))
  PROVE  /\ q \in Plans /\ Sound(q, B, F, K)
         /\ \A n \in DOMAIN q : ~ Makes(q[n])
         /\ \A p : Apart(q, p) /\ Apart(p, q)
<1>1. \A n \in DOMAIN q : q[n] \in Calm(B, F)
  OBVIOUS
<1>2. q \in Plans
  BY DEF Calm, Plans
<1>3. \A n \in DOMAIN q :
        /\ q[n].op \notin {"insert", "profile", "match", "mint"}
        /\ q[n].op \in {"issue", "sign", "link"} => q[n].user \in B
        /\ q[n].op = "spend" => q[n].code \notin F
  BY <1>1 DEF Calm
<1>4. Sound(q, B, F, K)
  BY <1>3 DEF Sound, Makes
<1>5. \A n \in DOMAIN q : ~ Makes(q[n])
  BY <1>3 DEF Makes
<1>6. \A p : Apart(q, p) /\ Apart(p, q)
  BY <1>3 DEF Apart
<1> QED
  BY <1>2, <1>4, <1>5, <1>6

LEMMA InsertSound ==
  ASSUME NEW B, NEW F, NEW K, NEW q \in Plans, NEW u, u \notin B, 2 \in DOMAIN q,
         q[1] = Await, q[2].op = "insert", q[2].user = u,
         \A n \in DOMAIN q : n > 2 => q[n].op \in {"issue", "sign", "link"} /\ q[n].user = u
  PROVE  Sound(q, B, F, K)
<1>1. \A n \in DOMAIN q : n = 1 \/ n = 2 \/ n > 2
  BY DEF Plans
<1>2. q[1].op = "await"
  BY DEF Await
<1>3. \A n \in DOMAIN q : /\ n # 2 => q[n].op \in {"await", "issue", "sign", "link"}
                          /\ q[n].op \in {"issue", "sign", "link"} => 2 < n /\ q[n].user = u
  BY <1>1, <1>2
<1>4. \A n \in DOMAIN q : Makes(q[n]) => n = 2
  BY <1>3 DEF Makes
<1>5. \A n \in DOMAIN q : q[n].op \in {"insert", "profile", "match", "mint", "spend"} => n = 2
  BY <1>3
<1> QED
  BY <1>3, <1>4, <1>5 DEF Sound

-----------------------------------------------------------------------------
(* There is always an account left for a sign-in with a provider           *)

LEMMA HeadIs ==
  ASSUME TypesInv, NEW r \in Requests, todo[r] # <<>>
  PROVE  /\ todo[r] \in Plans /\ 1 \in DOMAIN todo[r] /\ Head(todo[r]) = todo[r][1]
         /\ Head(todo[r]) \in Acts \cup {Await}
<1>1. todo[r] \in Seq(Acts \cup {Await})
  BY DEF TypesInv, Plans
<1> QED
  BY <1>1 DEF Plans

LEMMA UnbornThere ==
  ASSUME AccountsInv, NEW r \in Requests, todo[r] # <<>>, Head(todo[r]).op = "profile"
  PROVE  Unborn # {}
<1> DEFINE Inserts(u, t) == \E n \in DOMAIN todo[t] : todo[t][n].op = "insert" /\ todo[t][n].user = u
           Due == {u \in Users : \E t \in Requests : Inserts(u, t)}
           f == [u \in Due |-> CHOOSE t \in Requests : Inserts(u, t)]
           Others == Carriers \ {r}
<1>1. \A u \in Due : f[u] \in Requests /\ Inserts(u, f[u])
  <2> SUFFICES ASSUME NEW u \in Due
               PROVE  f[u] \in Requests /\ Inserts(u, f[u])
    OBVIOUS
  <2>1. \E t \in Requests : Inserts(u, t)
    OBVIOUS
  <2>2. f[u] = CHOOSE t \in Requests : Inserts(u, t)
    OBVIOUS
  <2> HIDE DEF Inserts, f
  <2> QED
    BY <2>1, <2>2
<1>2. ASSUME NEW t \in Requests, NEW n \in DOMAIN todo[t], NEW m \in DOMAIN todo[t],
             Makes(todo[t][n]), Makes(todo[t][m])
      PROVE  n = m
  <2>1. Sound(todo[t], Known, Fresh, DOMAIN tickets)
    BY DEF AccountsInv, ListsInv
  <2> QED
    BY <1>2, <2>1 DEF Sound
<1>3. r \in Carriers /\ ~ \E u \in Users : Inserts(u, r)
  <2>1. 1 \in DOMAIN todo[r] /\ todo[r][1].op = "profile"
    BY HeadIs DEF AccountsInv
  <2> QED
    BY <1>2, <2>1 DEF Carriers, Makes
<1>4. \A u \in Due : f[u] \in Others
  <2>1. \A u \in Due, t \in Requests : Inserts(u, t) => t \in Others
    <3> SUFFICES ASSUME NEW u \in Due, NEW t \in Requests, Inserts(u, t)
                 PROVE  t \in Others
      OBVIOUS
    <3>1. PICK n \in DOMAIN todo[t] : todo[t][n].op = "insert" /\ todo[t][n].user = u
      OBVIOUS
    <3>2. t \in Carriers /\ t # r
      BY <1>3, <3>1 DEF Carriers, Makes
    <3> QED
      BY <3>2
  <2> HIDE DEF f, Inserts, Due, Others
  <2> QED
    BY <1>1, <2>1
<1>5. ASSUME NEW u \in Due, NEW v \in Due, f[u] = f[v]
      PROVE  u = v
  <2>1. PICK t \in Requests : Inserts(u, t) /\ Inserts(v, t)
    <3> HIDE DEF f, Inserts, Due
    <3> QED
      BY <1>1, <1>5
  <2>2. PICK n \in DOMAIN todo[t] : todo[t][n].op = "insert" /\ todo[t][n].user = u
    BY <2>1
  <2>3. PICK m \in DOMAIN todo[t] : todo[t][m].op = "insert" /\ todo[t][m].user = v
    BY <2>1
  <2> QED
    BY <1>2, <2>2, <2>3 DEF Makes
<1>6. f \in [Due -> Others]
  BY <1>4
<1>7. IsFiniteSet(Carriers) /\ IsFiniteSet(Others)
  BY LoopAssumption, FS_Subset DEF Carriers
<1>8. f \in Injection(Due, Others)
  BY <1>5, <1>6 DEF Injection, IsInjective
<1>9. /\ IsFiniteSet(Due) /\ Cardinality(Due) <= Cardinality(Others)
      /\ Cardinality(Due) \in Nat /\ Cardinality(Others) \in Nat
  <2> HIDE DEF Due, f, Others
  <2> QED
    BY <1>7, <1>8, FS_Injection, FS_CardinalityType
<1>10. Cardinality(Others) = Cardinality(Carriers) - 1 /\ Cardinality(Carriers) \in Nat
  BY <1>3, <1>7, FS_RemoveElement, FS_CardinalityType
<1>11. Cardinality(Carriers) <= Cardinality(Users \ Known)
  BY DEF AccountsInv, ListsInv
<1>12. ASSUME Unborn = {}
       PROVE  FALSE
  <2>1. Users \ Known \subseteq Due
    <3> SUFFICES ASSUME NEW u \in Users \ Known
                 PROVE  u \in Due
      OBVIOUS
    <3>1. users[u].in = "no"
      BY DEF Known
    <3>2. PICK s \in Pending : s.op = "insert" /\ s.user = u
      BY <1>12, <3>1 DEF Unborn
    <3>3. PICK t \in Requests : s \in {todo[t][n] : n \in DOMAIN todo[t]}
      BY <3>2 DEF Pending
    <3>4. Inserts(u, t)
      BY <3>2, <3>3
    <3> QED
      BY <3>4
  <2>2. Cardinality(Users \ Known) <= Cardinality(Due) /\ Cardinality(Users \ Known) \in Nat
    <3> HIDE DEF Due
    <3> QED
      BY <1>9, <2>1, FS_Subset, FS_CardinalityType
  <2> QED
    BY <1>9, <1>10, <1>11, <2>2
<1> QED
  BY <1>12

LEMMA CalmActs ==
  ASSUME NEW B \in SUBSET Users, NEW F
  PROVE  /\ Await \in Calm(B, F)
         /\ \A u \in B, x \in Purposes, i \in Identities \cup {NoOne} : Issue(u, x, i) \in Calm(B, F)
         /\ \A u \in B, b \in BOOLEAN : Sign(u, b) \in Calm(B, F)
         /\ \A u \in B, i \in Identities \cup {NoOne} : Link(i, u) \in Calm(B, F)
         /\ \A i \in Identities : Unlinked(i) \in Calm(B, F)
         /\ \A k, n \in Nat : Use(k) \in Calm(B, F) /\ Attempt(k, n) \in Calm(B, F) /\ Revoke(k) \in Calm(B, F)
         /\ \A u \in Users : Verified(u) \in Calm(B, F) /\ Passkey(u) \in Calm(B, F)
         /\ \A u \in Users, a, b \in BOOLEAN : Totp(u, a, b) \in Calm(B, F) /\ Wipe(u, a) \in Calm(B, F)
         /\ \A u \in Users, p \in Passwords, n \in Nat : Reset(u, p, n) \in Calm(B, F)
         /\ \A u \in Users, e \in Emails, p \in Passwords : Promoted(u, e, p) \in Calm(B, F)
         /\ \A c \in Codes : /\ Unlook(c) \in Calm(B, F) /\ Lookup(c) \in Calm(B, F)
                             /\ c \notin F => SpendCode(c) \in Calm(B, F)
<1>1. Await \in Calm(B, F)
  BY DEF Calm, Await
<1>2. \A u \in B, x \in Purposes, i \in Identities \cup {NoOne} : Issue(u, x, i) \in Calm(B, F)
  BY DEF Calm, Acts, Issue
<1>3. \A u \in B, b \in BOOLEAN : Sign(u, b) \in Calm(B, F)
  BY DEF Calm, Acts, Sign
<1>4. \A u \in B, i \in Identities \cup {NoOne} : Link(i, u) \in Calm(B, F)
  BY DEF Calm, Acts, Link
<1>5. \A i \in Identities : Unlinked(i) \in Calm(B, F)
  BY DEF Calm, Acts, Unlinked
<1>6. \A k, n \in Nat : Use(k) \in Calm(B, F) /\ Attempt(k, n) \in Calm(B, F) /\ Revoke(k) \in Calm(B, F)
  BY DEF Calm, Acts, Use, Attempt, Revoke
<1>7. \A u \in Users : Verified(u) \in Calm(B, F) /\ Passkey(u) \in Calm(B, F)
  BY DEF Calm, Acts, Verified, Passkey
<1>8. \A u \in Users, a, b \in BOOLEAN : Totp(u, a, b) \in Calm(B, F) /\ Wipe(u, a) \in Calm(B, F)
  BY DEF Calm, Acts, Totp, Wipe
<1>9. \A u \in Users, p \in Passwords, n \in Nat : Reset(u, p, n) \in Calm(B, F)
  BY DEF Calm, Acts, Reset
<1>10. \A u \in Users, e \in Emails, p \in Passwords : Promoted(u, e, p) \in Calm(B, F)
  BY DEF Calm, Acts, Promoted
<1>11. \A c \in Codes : /\ Unlook(c) \in Calm(B, F) /\ Lookup(c) \in Calm(B, F)
                        /\ c \notin F => SpendCode(c) \in Calm(B, F)
  BY DEF Calm, Acts, Unlook, Lookup, SpendCode
<1> QED
  BY <1>1, <1>2, <1>3, <1>4, <1>5, <1>6, <1>7, <1>8, <1>9, <1>10, <1>11

LEMMA Lists ==
  ASSUME NEW S, NEW a \in S, NEW b \in S, NEW c \in S, NEW d \in S, NEW e \in S
  PROVE  /\ <<>> \in Seq(S) /\ <<a>> \in Seq(S) /\ <<a, b>> \in Seq(S) /\ <<a, b, c>> \in Seq(S)
         /\ <<a, b, c, d>> \in Seq(S) /\ <<a, b, c, d, e>> \in Seq(S)
  OBVIOUS

LEMMA CountedCalm ==
  ASSUME NEW B \in SUBSET Users, NEW F, NEW k \in Nat, NEW n \in Nat
  PROVE  Counted(k, n) \in Seq(Calm(B, F))
<1>1. PICK m \in Nat : m = n + 1
  OBVIOUS
<1>2. Use(k) \in Calm(B, F) /\ Attempt(k, m) \in Calm(B, F)
  BY CalmActs
<1> QED
  BY <1>1, <1>2 DEF Counted

LEMMA ApartBoth ==
  ASSUME NEW q, NEW p, Apart(q, p)
  PROVE  Apart(p, q)
  BY DEF Apart

LEMMA ApartTail ==
  ASSUME NEW q \in Plans, q # <<>>, NEW p, Apart(q, p)
  PROVE  Apart(Tail(q), p)
<1>1. PICK t : t = Tail(q)
  OBVIOUS
<1>2. \A n \in DOMAIN t : n + 1 \in DOMAIN q /\ t[n] = q[n + 1]
  BY <1>1, TailIs DEF Plans
<1>3. Apart(t, p)
  BY <1>2 DEF Apart
<1> QED
  BY <1>1, <1>3

LEMMA InsertsIn ==
  ASSUME NEW u \in Users, NEW e \in Emails, NEW p \in Passwords \cup {NoOne},
         NEW a \in BOOLEAN, NEW b \in BOOLEAN
  PROVE  /\ Insert(u, e, p, a, b) \in Acts /\ Insert(u, e, p, a, b).op = "insert"
         /\ Insert(u, e, p, a, b).user = u
<1>1. User("yes", e, p, a, b) \in UserRows /\ User("yes", e, p, a, b).in = "yes"
  BY DEF User, UserRows
<1>2. PICK row : row = User("yes", e, p, a, b)
  OBVIOUS
<1>3. [op |-> "insert", user |-> u, row |-> row] \in Acts
  BY <1>1, <1>2 DEF Acts
<1> QED
  BY <1>2, <1>3 DEF Insert

(* An account nobody has yet: a list that makes it.                        *)
LEMMA Making ==
  ASSUME AccountsInv, NEW u \in Unborn, NEW e \in Emails, NEW p \in Passwords \cup {NoOne},
         NEW a \in BOOLEAN, NEW b \in BOOLEAN, NEW F, NEW K, NEW q,
         \/ \E x \in Purposes, i \in Identities \cup {NoOne} :
              q = <<Await, Insert(u, e, p, a, b), Issue(u, x, i)>>
         \/ q = <<Await, Insert(u, e, p, a, b), Sign(u, TRUE)>>
         \/ \E i \in Identities \cup {NoOne} :
              q = <<Await, Insert(u, e, p, a, b), Link(i, u), Sign(u, TRUE)>>
  PROVE  /\ q \in Plans /\ Sound(q, Known, F, K)
         /\ \A t \in Requests : Apart(q, todo[t]) /\ Apart(todo[t], q)
<1>1. u \in Users /\ u \notin Known
  BY DEF Unborn, Known
<1>2. PICK s : s = Insert(u, e, p, a, b)
  OBVIOUS
<1>3. s \in Acts /\ s.op = "insert" /\ s.user = u
  BY <1>1, <1>2, InsertsIn
<1>4. ASSUME NEW x \in {"issue", "sign", "link"}, NEW t \in Acts, NEW w \in Acts, t.op = x,
             t.user = u, w.op = "sign", w.user = u, q \in {<<Await, s, t>>, <<Await, s, t, w>>}
      PROVE  /\ q \in Plans /\ 2 \in DOMAIN q /\ q[1] = Await /\ q[2] = s
             /\ \A n \in DOMAIN q : n > 2 => q[n].op \in {"issue", "sign", "link"} /\ q[n].user = u
             /\ \A n \in DOMAIN q : q[n].op \notin {"await", "issue", "sign", "link"} => q[n] = s
  <2>1. CASE q = <<Await, s, t>>
    <3>1. Len(q) = 3 /\ q[1] = Await /\ q[2] = s /\ q[3] = t /\ q \in Plans
      BY <1>3, <2>1 DEF Plans
    <3>2. \A n \in DOMAIN q : n \in {1, 2, 3}
      BY <3>1 DEF Plans
    <3> QED
      BY <1>4, <3>1, <3>2 DEF Plans, Await
  <2>2. CASE q = <<Await, s, t, w>>
    <3>1. Len(q) = 4 /\ q[1] = Await /\ q[2] = s /\ q[3] = t /\ q[4] = w /\ q \in Plans
      BY <1>3, <2>2 DEF Plans
    <3>2. \A n \in DOMAIN q : n \in {1, 2, 3, 4}
      BY <3>1 DEF Plans
    <3> QED
      BY <1>4, <3>1, <3>2 DEF Plans, Await
  <2> QED
    BY <1>4, <2>1, <2>2
<1>5. /\ \A x \in Purposes, i \in Identities \cup {NoOne} :
           Issue(u, x, i) \in Acts /\ Issue(u, x, i).op = "issue" /\ Issue(u, x, i).user = u
      /\ Sign(u, TRUE) \in Acts /\ Sign(u, TRUE).op = "sign" /\ Sign(u, TRUE).user = u
      /\ \A i \in Identities \cup {NoOne} :
           Link(i, u) \in Acts /\ Link(i, u).op = "link" /\ Link(i, u).user = u
  BY <1>1 DEF Acts, Issue, Sign, Link
<1>6. /\ q \in Plans /\ 2 \in DOMAIN q /\ q[1] = Await /\ q[2] = s
      /\ \A n \in DOMAIN q : n > 2 => q[n].op \in {"issue", "sign", "link"} /\ q[n].user = u
      /\ \A n \in DOMAIN q : q[n].op \notin {"await", "issue", "sign", "link"} => q[n] = s
  BY <1>2, <1>4, <1>5
<1>7. Sound(q, Known, F, K)
  BY <1>1, <1>3, <1>6, InsertSound
<1>8. \A t \in Requests : \A m \in DOMAIN todo[t] : ~ (todo[t][m].op = "insert" /\ todo[t][m].user = u)
  <2> SUFFICES ASSUME NEW t \in Requests, NEW m \in DOMAIN todo[t],
                      todo[t][m].op = "insert", todo[t][m].user = u
               PROVE  FALSE
    OBVIOUS
  <2>1. todo[t][m] \in {todo[t][n] : n \in DOMAIN todo[t]}
    OBVIOUS
  <2>2. todo[t][m] \in Pending
    BY <2>1 DEF Pending
  <2> QED
    BY <2>2 DEF Unborn
<1>9. ASSUME NEW t \in Requests
      PROVE  Apart(q, todo[t]) /\ Apart(todo[t], q)
  <2>1. \A n \in DOMAIN q : q[n].op # "mint" /\ (q[n].op = "insert" => q[n].user = u)
    BY <1>3, <1>6
  <2> QED
    BY <1>8, <2>1 DEF Apart
<1> QED
  BY <1>6, <1>7, <1>9

-----------------------------------------------------------------------------
(* What a handler has left to do                                           *)

LEMMA RestSound ==
  ASSUME AccountsInv, NEW r \in Requests, todo[r] # <<>>, NEW s, s = Head(todo[r]), s \in Acts,
         ~ Refused(s), NEW rest, rest = Then(s, Tail(todo[r])),
         NEW B \in SUBSET Users, Known \subseteq B, s.op = "insert" => s.user \in B, s.op # "insert" => B = Known,
         \A n \in DOMAIN todo[r] : n # 1 /\ todo[r][n].op = "insert" => todo[r][n].user \notin B,
         NEW F, F \subseteq Fresh,
         \A n \in DOMAIN todo[r] : n # 1 /\ todo[r][n].op = "mint" => todo[r][n].code \in F,
         NEW K, DOMAIN tickets \subseteq K
  PROVE  /\ rest \in Plans /\ Sound(rest, B, F, K)
         /\ \A t \in Requests \ {r} : Apart(rest, todo[t]) /\ Apart(todo[t], rest)
         /\ \A n \in DOMAIN rest : Makes(rest[n]) => r \in Carriers /\ s.op # "insert"
<1>1. /\ todo[r] \in Plans /\ 1 \in DOMAIN todo[r] /\ s = todo[r][1]
      /\ Sound(todo[r], Known, Fresh, DOMAIN tickets)
  BY HeadIs DEF AccountsInv, ListsInv
<1>2. ASSUME rest \in Seq(Calm(B, F))
      PROVE  /\ rest \in Plans /\ Sound(rest, B, F, K)
             /\ \A t \in Requests \ {r} : Apart(rest, todo[t]) /\ Apart(todo[t], rest)
             /\ \A n \in DOMAIN rest : Makes(rest[n]) => r \in Carriers /\ s.op # "insert"
  BY <1>2, CalmSound
<1>3. \A u \in Known : u \in B
  OBVIOUS
<1>4. CASE s.op = "match"
  <2>1. s.ticket \in DOMAIN tickets /\ s.code \in Codes /\ s.n \in Nat /\ s.ticket \in Nat
    BY <1>1, <1>4, ActsAre DEF Sound
  <2>2. PICK u : u = tickets[s.ticket].user
    OBVIOUS
  <2>3. u \in B
    BY <1>3, <2>1, <2>2 DEF AccountsInv, KnownInv
  <2>4. CASE Usable(s.code, u)
    <3>1. s.code \notin F
      BY <2>4 DEF Usable, Fresh
    <3>2. rest = <<Await, SpendCode(s.code), Unlook(s.code), Use(s.ticket), Sign(u, TRUE)>>
      BY <1>4, <2>2, <2>4 DEF Then
    <3>3. /\ Await \in Calm(B, F) /\ SpendCode(s.code) \in Calm(B, F) /\ Unlook(s.code) \in Calm(B, F)
          /\ Use(s.ticket) \in Calm(B, F) /\ Sign(u, TRUE) \in Calm(B, F)
      BY <2>1, <2>3, <3>1, CalmActs
    <3>4. rest \in Seq(Calm(B, F))
      <4>1. PICK S : S = Calm(B, F)
        OBVIOUS
      <4>2. \A a, b, c, d, e \in S : <<a, b, c, d, e>> \in Seq(S)
        BY Lists
      <4>3. /\ Await \in S /\ SpendCode(s.code) \in S /\ Unlook(s.code) \in S
            /\ Use(s.ticket) \in S /\ Sign(u, TRUE) \in S
        BY <3>3, <4>1
      <4>4. <<Await, SpendCode(s.code), Unlook(s.code), Use(s.ticket), Sign(u, TRUE)>> \in Seq(S)
        BY <4>2, <4>3, Zenon
      <4> QED
        BY <3>2, <4>1, <4>4, Zenon
    <3> QED
      BY <1>2, <3>4
  <2>5. CASE ~ Usable(s.code, u)
    <3>1. rest = Counted(s.ticket, s.n)
      BY <1>4, <2>2, <2>5 DEF Then
    <3> QED
      BY <1>2, <2>1, <3>1, CountedCalm
  <2> QED
    BY <2>4, <2>5
<1>5. CASE s.op = "profile"
  <2>1. s.identity \in Identities /\ s.email \in Emails /\ s.verified \in BOOLEAN
    BY <1>5, ActsAre
  <2>2. CASE links[s.identity] # NoOne
    <3>1. links[s.identity] \in B
      BY <1>3, <2>1, <2>2 DEF AccountsInv, KnownInv
    <3>2. rest = <<Sign(links[s.identity], TRUE)>>
      BY <1>5, <2>2 DEF Then
    <3>3. Sign(links[s.identity], TRUE) \in Calm(B, F)
      BY <3>1, CalmActs
    <3> QED
      BY <1>2, <3>2, <3>3, Lists
  <2>3. CASE links[s.identity] = NoOne /\ s.verified /\ ByEmail(s.email) # {}
    <3>1. PICK u : u = CHOOSE x \in ByEmail(s.email) : TRUE
      OBVIOUS
    <3>2. u \in ByEmail(s.email)
      BY <2>3, <3>1
    <3>3. u \in B
      BY <1>3, <3>2 DEF ByEmail, Exists, Known
    <3>4. rest = <<Issue(u, "oauth2_merge", s.identity)>>
      BY <1>5, <2>3, <3>1 DEF Then
    <3>5. Issue(u, "oauth2_merge", s.identity) \in Calm(B, F)
      BY <2>1, <3>3, CalmActs DEF Purposes
    <3> QED
      BY <1>2, <3>4, <3>5, Lists
  <2>4. CASE links[s.identity] = NoOne /\ ~ (s.verified /\ ByEmail(s.email) # {})
    <3>1. PICK u : u = CHOOSE x \in Unborn : TRUE
      OBVIOUS
    <3>2. u \in Unborn
      BY <1>5, <3>1, UnbornThere
    <3>3. rest = <<Await, Insert(u, s.email, NoOne, s.verified, FALSE), Link(s.identity, u), Sign(u, TRUE)>>
      BY <1>5, <2>4, <3>1 DEF Then
    <3>4. /\ rest \in Plans /\ Sound(rest, Known, F, K)
          /\ \A t \in Requests : Apart(rest, todo[t]) /\ Apart(todo[t], rest)
      <4>1. PICK e, v, i : e = s.email /\ v = s.verified /\ i = s.identity
        OBVIOUS
      <4>2. /\ e \in Emails /\ v \in BOOLEAN /\ i \in Identities \cup {NoOne}
            /\ NoOne \in Passwords \cup {NoOne} /\ FALSE \in BOOLEAN
        BY <2>1, <4>1
      <4>3. \E j \in Identities \cup {NoOne} :
              rest = <<Await, Insert(u, e, NoOne, v, FALSE), Link(j, u), Sign(u, TRUE)>>
        BY <3>3, <4>1, <4>2
      <4> QED
        BY <3>2, <4>2, <4>3, Making
    <3>5. r \in Carriers /\ B = Known
      BY <1>1, <1>5 DEF Carriers, Makes
    <3> QED
      BY <1>5, <3>4, <3>5
  <2> QED
    BY <2>2, <2>3, <2>4
<1>6. CASE s.op \notin {"match", "profile"}
  <2>1. rest = Tail(todo[r])
    BY <1>6 DEF Then
  <2>2. Sound(rest, B, F, K)
    <3>1. PICK q : q = todo[r]
      OBVIOUS
    <3>2. /\ q \in Plans /\ q # <<>> /\ Sound(q, Known, Fresh, DOMAIN tickets)
          /\ q[1].op = "insert" => q[1].user \in B
          /\ \A n \in DOMAIN q : n # 1 /\ q[n].op = "insert" => q[n].user \notin B
          /\ \A n \in DOMAIN q : n # 1 /\ q[n].op = "mint" => q[n].code \in F
      BY <1>1, <3>1
    <3>3. Sound(Tail(q), B, F, K)
      BY <3>2, SoundTail
    <3> QED
      BY <2>1, <3>1, <3>3
  <2>3. rest \in Plans
    BY <1>1, <2>1, TailIs DEF Plans
  <2>4. ASSUME NEW t \in Requests \ {r}
        PROVE  Apart(rest, todo[t]) /\ Apart(todo[t], rest)
    <3>1. Apart(todo[r], todo[t])
      BY DEF AccountsInv, ListsInv
    <3>2. Apart(rest, todo[t])
      BY <1>1, <2>1, <3>1, ApartTail
    <3> QED
      BY <3>2, ApartBoth
  <2>5. ASSUME NEW n \in DOMAIN rest, Makes(rest[n])
        PROVE  r \in Carriers /\ s.op # "insert"
    <3>1. n + 1 \in DOMAIN todo[r] /\ rest[n] = todo[r][n + 1] /\ n + 1 # 1
      BY <1>1, <2>1, TailIs, SMTT(30) DEF Plans
    <3>2. r \in Carriers
      BY <2>5, <3>1 DEF Carriers
    <3>3. ~ Makes(todo[r][1])
      BY <1>1, <2>5, <3>1 DEF Sound
    <3> QED
      BY <1>1, <3>2, <3>3 DEF Makes
  <2> QED
    BY <2>2, <2>3, <2>4, <2>5
<1> QED
  BY <1>4, <1>5, <1>6

(* What a statement does to the accounts, the codes and the tickets.       *)
LEMMA HeadSound ==
  ASSUME AccountsInv, NEW r \in Requests, todo[r] # <<>>, NEW s, s = Head(todo[r])
  PROVE  /\ s.op \in {"issue", "sign", "link"} => s.user \in Known
         /\ s.op = "insert" => s.user \notin Known
         /\ s.op = "spend" => s.code \notin Fresh
         /\ s.op = "mint" => s.code \in Fresh
         /\ s.op = "match" => s.ticket \in DOMAIN tickets
         /\ s.op \in {"match", "profile"} => Len(todo[r]) = 1
<1>1. PICK q : q = todo[r]
  OBVIOUS
<1>2. q \in Plans /\ 1 \in DOMAIN q /\ s = q[1] /\ Sound(q, Known, Fresh, DOMAIN tickets)
  BY <1>1, HeadIs DEF AccountsInv, ListsInv
<1>3. \A m \in DOMAIN q : ~ (m < 1)
  BY <1>2 DEF Plans
<1>4. s.op \in {"issue", "sign", "link"} => s.user \in Known
  BY <1>2, <1>3 DEF Sound
<1>5. /\ s.op = "insert" => s.user \notin Known
      /\ s.op = "spend" => s.code \notin Fresh
      /\ s.op = "mint" => s.code \in Fresh
  BY <1>2 DEF Sound
<1>6. /\ s.op = "match" => s.ticket \in DOMAIN tickets
      /\ s.op \in {"match", "profile"} => Len(q) = 1
  BY <1>2 DEF Sound
<1> QED
  BY <1>1, <1>4, <1>5, <1>6

LEMMA Moves ==
  ASSUME AccountsInv, NEW r \in Requests, todo[r] # <<>>, NEW s, s = Head(todo[r]), s \in Acts,
         ~ Refused(s), users' = UsersAfter(s), links' = LinksAfter(s), tickets' = TicketsAfter(s),
         codes' = CodesAfter(s), tokens' = TokensAfter(s), revoked' = RevokedAfter(s)
  PROVE  /\ users' \in [Users -> UserRows] /\ tickets' \in Seq(TicketRows)
         /\ codes' \in [Codes -> CodeRows] /\ links' \in [Identities -> Users \cup {NoOne}]
         /\ tokens' \in Seq(TokenRows) /\ revoked' \in SUBSET Nat
         /\ Known' = Known \cup (IF s.op = "insert" THEN {s.user} ELSE {})
         /\ Fresh' = Fresh \ (IF s.op = "mint" THEN {s.code} ELSE {})
         /\ DOMAIN tickets \subseteq DOMAIN tickets' /\ Over \subseteq Over'
         /\ s.op \in {"use", "spend"} => \A x \in DOMAIN tickets \cup Codes : Spends(s, x) => x \in Over'
         /\ s.op = "wipe" => Held(s.user) \subseteq Over'
         /\ KnownInv' /\ EmailUnique'
<1>1. TypesInv /\ KnownInv /\ EmailUnique
  BY DEF AccountsInv
<1>2. /\ s.op \in {"issue", "sign", "link"} => s.user \in Known
      /\ s.op = "insert" => s.user \notin Known
      /\ s.op = "spend" => s.code \notin Fresh
      /\ s.op = "mint" => s.code \in Fresh
  BY HeadSound
<1>3. /\ users' \in [Users -> UserRows]
      /\ \A u \in Users :
           /\ s.op = "insert" /\ s.user = u => users'[u] = s.row
           /\ s.op # "insert" \/ s.user # u => users'[u].in = users[u].in
           /\ s.op = "promote" /\ s.user = u => users'[u].email = s.email
           /\ s.op \notin {"insert", "promote"} \/ s.user # u => users'[u].email = users[u].email
  BY <1>1, UsersChange DEF TypesInv
<1>4. /\ tickets' \in Seq(TicketRows) /\ DOMAIN tickets \subseteq DOMAIN tickets'
      /\ \A k \in DOMAIN tickets :
           /\ tickets'[k].user = tickets[k].user
           /\ tickets[k].used => tickets'[k].used
           /\ s.op = "use" /\ s.ticket = k => tickets'[k].used
      /\ s.op # "issue" => DOMAIN tickets' = DOMAIN tickets
      /\ s.op = "issue" => \A k \in DOMAIN tickets' : k \in DOMAIN tickets \/ tickets'[k].user = s.user
  BY <1>1, TicketsChange DEF TypesInv
<1>5. /\ codes' \in [Codes -> CodeRows]
      /\ \A c \in Codes :
           /\ s.op = "spend" /\ s.code = c => codes'[c].row = "used"
           /\ s.op = "mint" /\ s.code = c => codes'[c].row = "live"
           /\ s.op = "wipe" => codes'[c].row = IF c \in Held(s.user) THEN "gone" ELSE codes[c].row
           /\ s.op # "wipe" /\ (s.op \notin {"spend", "mint"} \/ s.code # c) =>
                codes'[c].row = codes[c].row
  BY <1>1, CodesChange DEF TypesInv
<1>6. /\ links' \in [Identities -> Users \cup {NoOne}]
      /\ \A i \in Identities : links'[i] \in {links[i], NoOne} \/ (s.op = "link" /\ links'[i] = s.user)
      /\ tokens' \in Seq(TokenRows) /\ DOMAIN tokens \subseteq DOMAIN tokens'
      /\ \A j \in DOMAIN tokens : tokens'[j] = tokens[j]
      /\ \A j \in DOMAIN tokens' : j \in DOMAIN tokens \/ (s.op = "sign" /\ tokens'[j].user = s.user)
      /\ revoked' \in SUBSET Nat /\ revoked \subseteq revoked'
  BY <1>1, OthersChange
<1>7. /\ s.op = "insert" => s.user \in Users /\ s.row \in UserRows /\ s.row.in = "yes"
      /\ s.op = "promote" => s.user \in Users
  BY ActsAre
<1>8. Known' = Known \cup (IF s.op = "insert" THEN {s.user} ELSE {})
  <2>1. ASSUME NEW u \in Users
        PROVE  users'[u].in # "no" <=> users[u].in # "no" \/ (s.op = "insert" /\ s.user = u)
    BY <1>2, <1>3, <1>7 DEF Known
  <2> QED
    BY <1>7, <2>1 DEF Known
<1>9. Fresh' = Fresh \ (IF s.op = "mint" THEN {s.code} ELSE {})
  <2>1. ASSUME NEW c \in Codes
        PROVE  codes'[c].row = "new" <=> codes[c].row = "new" /\ ~ (s.op = "mint" /\ s.code = c)
    BY <1>2, <1>5 DEF Fresh, Held
  <2> QED
    BY <2>1 DEF Fresh
<1>10. Over \subseteq Over'
  <2>1. ASSUME NEW c \in Codes, codes[c].row \in {"used", "gone"}
        PROVE  codes'[c].row \in {"used", "gone"}
    BY <1>2, <1>5, <2>1 DEF Fresh
  <2> QED
    BY <1>4, <2>1 DEF Over
<1>11. ASSUME s.op \in {"use", "spend"}, NEW x \in DOMAIN tickets \cup Codes, Spends(s, x)
       PROVE  x \in Over'
  <2>1. CASE s.op = "use"
    <3>1. s.ticket = x /\ s.ticket \in Nat
      BY <1>11, <2>1, ActsAre DEF Spends
    <3>2. x \in DOMAIN tickets
      BY <3>1, AccountsAssumption
    <3> QED
      BY <1>4, <2>1, <3>1, <3>2 DEF Over
  <2>2. CASE s.op = "spend"
    BY <1>5, <1>11, <2>2, ActsAre DEF Over, Spends
  <2> QED
    BY <1>11, <2>1, <2>2
<1>12. s.op = "wipe" => Held(s.user) \subseteq Over'
  BY <1>5 DEF Over, Held
<1>13. KnownInv'
  <2>1. \A u \in Known : u \in Known'
    BY <1>8
  <2>2. \A j \in DOMAIN tokens' : tokens'[j].user \in Known'
    BY <1>1, <1>2, <1>6, <2>1 DEF KnownInv
  <2>3. \A k \in DOMAIN tickets' : tickets'[k].user \in Known'
    BY <1>1, <1>2, <1>4, <2>1 DEF KnownInv
  <2>4. \A i \in Identities : links'[i] \in Known' \cup {NoOne}
    BY <1>1, <1>2, <1>6, <2>1 DEF KnownInv
  <2> QED
    BY <2>2, <2>3, <2>4 DEF KnownInv
<1>14. EmailUnique'
  <2> SUFFICES ASSUME NEW u \in Users, NEW v \in Users, users'[u].in = "yes", users'[v].in = "yes",
                      users'[u].email = users'[v].email
               PROVE  u = v
    BY DEF EmailUnique, Exists
  <2>1. \A x, y \in Users : users[x].in = "yes" /\ users[y].in = "yes" /\ users[x].email = users[y].email => x = y
    BY <1>1 DEF EmailUnique, Exists
  <2>2. CASE s.op \notin {"insert", "promote"}
    BY <1>3, <2>1, <2>2
  <2>3. ASSUME s.op \in {"insert", "promote"}, NEW e, \A x \in Users : users[x].in = "yes" /\ users[x].email = e => x = s.user,
               users'[s.user].email = e
        PROVE  u = v
    BY <1>3, <1>7, <2>1, <2>3
  <2>4. CASE s.op = "insert"
    <3>1. ~ EmailTaken(s.user, s.row.email)
      BY <2>4 DEF Refused
    <3>2. \A x \in Users : users[x].in = "yes" /\ users[x].email = s.row.email => x = s.user
      BY <3>1 DEF EmailTaken, ByEmail, Exists
    <3>3. users'[s.user].email = s.row.email
      BY <1>3, <1>7, <2>4
    <3> QED
      BY <2>3, <2>4, <3>2, <3>3
  <2>5. CASE s.op = "promote"
    <3>1. ~ EmailTaken(s.user, s.email)
      BY <2>5 DEF Refused
    <3>2. \A x \in Users : users[x].in = "yes" /\ users[x].email = s.email => x = s.user
      BY <3>1 DEF EmailTaken, ByEmail, Exists
    <3>3. users'[s.user].email = s.email
      BY <1>3, <1>7, <2>5
    <3> QED
      BY <2>3, <2>5, <3>2, <3>3
  <2> QED
    BY <2>2, <2>4, <2>5
<1> QED
  BY <1>3, <1>4, <1>5, <1>6, <1>8, <1>9, <1>10, <1>11, <1>12, <1>13, <1>14

LEMMA KeysFollow ==
  ASSUME AccountsInv, NEW r \in Requests, todo[r] # <<>>, NEW s, s = Head(todo[r]), s \in Acts,
         NEW rest, rest = Then(s, Tail(todo[r])), NEW G, Over \subseteq G,
         s.op \in {"use", "spend"} => \A x \in DOMAIN tickets \cup Codes : Spends(s, x) => x \in G,
         NEW x, \/ x \in accepted[r] /\ (s.op = "match" => Usable(s.code, tickets[s.ticket].user))
                \/ s.op = "match" /\ Usable(s.code, tickets[s.ticket].user) /\ x = s.code
  PROVE  x \in DOMAIN tickets \cup Codes /\ Admits(rest, x, G)
<1>1. /\ todo[r] \in Plans /\ 1 \in DOMAIN todo[r] /\ s = todo[r][1]
      /\ s.op \in {"match", "profile"} => Len(todo[r]) = 1
  BY HeadIs, HeadSound DEF AccountsInv
<1>2. x \in accepted[r] => /\ x \in DOMAIN tickets \cup Codes
                           /\ x \in Over \/ \E n \in DOMAIN todo[r] : Spends(todo[r][n], x)
  BY DEF AccountsInv, ListsInv, Admits
<1>3. x \in Over => x \in G
  OBVIOUS
<1>4. CASE s.op = "match"
  <2>1. PICK u : u = tickets[s.ticket].user
    OBVIOUS
  <2>2. rest = <<Await, SpendCode(s.code), Unlook(s.code), Use(s.ticket), Sign(u, TRUE)>>
    BY <1>4, <2>1 DEF Then
  <2>3. PICK a : a = SpendCode(s.code)
    OBVIOUS
  <2>4. PICK b : b = Use(s.ticket)
    OBVIOUS
  <2>5. PICK y, z : y = Unlook(s.code) /\ z = Sign(u, TRUE)
    OBVIOUS
  <2>6. rest = <<Await, a, y, b, z>>
    BY <2>2, <2>3, <2>4, <2>5
  <2>7. 2 \in DOMAIN rest /\ 4 \in DOMAIN rest /\ rest[2] = a /\ rest[4] = b
    BY <2>6
  <2>8. s.code \in Codes /\ Spends(a, s.code) /\ Spends(b, s.ticket)
    BY <1>4, <2>3, <2>4, ActsAre DEF Spends, SpendCode, Use
  <2>9. CASE x = s.code
    BY <2>7, <2>8, <2>9 DEF Admits
  <2>10. CASE x \in accepted[r] /\ x \notin Over
    <3>1. PICK n \in DOMAIN todo[r] : Spends(todo[r][n], x)
      BY <1>2, <2>10
    <3>2. n = 1
      BY <1>1, <1>4 DEF Plans
    <3>3. x = s.ticket
      BY <1>1, <1>4, <3>1, <3>2 DEF Spends
    <3> QED
      BY <1>2, <2>7, <2>8, <2>10, <3>3 DEF Admits
  <2>11. CASE x \in accepted[r] /\ x \in Over
    BY <1>2, <1>3, <2>11 DEF Admits
  <2> QED
    BY <1>4, <2>9, <2>10, <2>11
<1>5. CASE s.op # "match" /\ x \in Over
  BY <1>2, <1>3, <1>5 DEF Admits
<1>6. CASE s.op # "match" /\ x \notin Over
  <2>1. PICK n \in DOMAIN todo[r] : Spends(todo[r][n], x)
    BY <1>2, <1>6
  <2>2. CASE n = 1
    <3>1. s.op \in {"use", "spend"} /\ Spends(s, x)
      BY <1>1, <1>6, <2>1, <2>2 DEF Spends
    <3> QED
      BY <1>2, <1>6, <3>1 DEF Admits
  <2>3. CASE n # 1
    <3>1. s.op # "profile"
      BY <1>1, <2>3 DEF Plans
    <3>2. rest = Tail(todo[r])
      BY <1>6, <3>1 DEF Then
    <3>3. n - 1 \in DOMAIN rest /\ rest[n - 1] = todo[r][n]
      BY <1>1, <2>3, <3>2, TailIs DEF Plans
    <3> QED
      BY <1>2, <1>6, <2>1, <3>3 DEF Admits
  <2> QED
    BY <2>2, <2>3
<1> QED
  BY <1>4, <1>5, <1>6

LEMMA ListsKept ==
  ASSUME AccountsInv, NEW r \in Requests, NEW rest, todo' = [todo EXCEPT ![r] = rest],
         NEW B, B = Known', NEW F, F = Fresh', NEW K, K = DOMAIN tickets', NEW G, G = Over',
         Known \subseteq B, F \subseteq Fresh, DOMAIN tickets \subseteq K, Over \subseteq G,
         Sound(rest, B, F, K),
         \A t \in Requests \ {r} : \A n \in DOMAIN todo[t] :
           /\ todo[t][n].op = "insert" => todo[t][n].user \notin B
           /\ todo[t][n].op = "mint" => todo[t][n].code \in F,
         \A t \in Requests \ {r} : Apart(rest, todo[t]) /\ Apart(todo[t], rest),
         \A t \in Requests \ {r} : accepted'[t] = accepted[t],
         \A x \in accepted'[r] : x \in K \cup Codes /\ Admits(rest, x, G),
         Cardinality(Carriers') <= Cardinality(Users \ B)
  PROVE  ListsInv'
<1>1. todo'[r] = rest /\ \A t \in Requests \ {r} : todo'[t] = todo[t]
  BY DEF AccountsInv, TypesInv
<1>2. ASSUME NEW t \in Requests
      PROVE  Sound(todo'[t], B, F, K)
  <2>1. CASE t # r
    <3>1. PICK q : q = todo[t]
      OBVIOUS
    <3>2. Sound(q, Known, Fresh, DOMAIN tickets)
      BY <3>1 DEF AccountsInv, ListsInv
    <3>3. /\ \A n \in DOMAIN q : q[n].op = "insert" => q[n].user \notin B
          /\ \A n \in DOMAIN q : q[n].op = "mint" => q[n].code \in F
      BY <2>1, <3>1
    <3>4. Sound(q, B, F, K)
      BY <3>2, <3>3, SoundStays
    <3> QED
      BY <1>1, <2>1, <3>1, <3>4
  <2> QED
    BY <1>1, <2>1
<1>3. ASSUME NEW t \in Requests, NEW w \in Requests, t # w
      PROVE  Apart(todo'[t], todo'[w])
  BY <1>1, <1>3 DEF AccountsInv, ListsInv
<1>4. ASSUME NEW t \in Requests, NEW x \in accepted'[t]
      PROVE  x \in K \cup Codes /\ Admits(todo'[t], x, G)
  <2>1. CASE t # r
    <3>1. x \in DOMAIN tickets \cup Codes /\ Admits(todo[t], x, Over)
      BY <1>4, <2>1 DEF AccountsInv, ListsInv
    <3> QED
      BY <1>1, <2>1, <3>1 DEF Admits
  <2> QED
    BY <1>1, <1>4, <2>1
<1> QED
  BY <1>2, <1>3, <1>4 DEF ListsInv

LEMMA StatementHas ==
  ASSUME AccountsInv, NEW r \in Requests, Statement(r)
  PROVE  \E s, rest, keys :
           /\ s \in Acts /\ s = Head(todo[r]) /\ todo[r] # <<>> /\ Runnable(r)
           /\ rest = IF Refused(s) THEN <<>> ELSE Then(s, Tail(todo[r]))
           /\ keys = IF Refused(s) \/ (s.op = "match" /\ ~ Usable(s.code, tickets[s.ticket].user)) THEN {}
                     ELSE accepted[r] \cup (IF s.op = "match" THEN {s.code} ELSE {})
           /\ Leaves(r, rest)
           /\ accepted' = [accepted EXCEPT ![r] = IF rest = <<>> THEN {} ELSE keys]
           /\ spent' = spent \cup (IF rest = <<>> THEN keys ELSE {})
                             \cup (IF s.op = "wipe" THEN Held(s.user) ELSE {})
           /\ Refused(s) => UNCHANGED accountTables
           /\ ~ Refused(s) =>
                /\ users' = UsersAfter(s) /\ links' = LinksAfter(s) /\ tickets' = TicketsAfter(s)
                /\ codes' = CodesAfter(s) /\ tokens' = TokensAfter(s) /\ revoked' = RevokedAfter(s)
           /\ now' = now
<1>1. PICK s : s = Head(todo[r])
  OBVIOUS
<1>2. todo[r] # <<>> /\ s.op # "await" /\ Runnable(r)
  BY <1>1 DEF Statement
<1>3. s \in Acts
  BY <1>1, <1>2, HeadIs DEF AccountsInv, Await
<1>4. PICK rest : rest = IF Refused(s) THEN <<>> ELSE Then(s, Tail(todo[r]))
  OBVIOUS
<1>5. PICK keys : keys = IF Refused(s) \/ (s.op = "match" /\ ~ Usable(s.code, tickets[s.ticket].user)) THEN {}
                         ELSE accepted[r] \cup (IF s.op = "match" THEN {s.code} ELSE {})
  OBVIOUS
<1>6. /\ Leaves(r, rest)
      /\ accepted' = [accepted EXCEPT ![r] = IF rest = <<>> THEN {} ELSE keys]
      /\ spent' = spent \cup (IF rest = <<>> THEN keys ELSE {})
                        \cup (IF s.op = "wipe" THEN Held(s.user) ELSE {})
      /\ Refused(s) => UNCHANGED accountTables
      /\ ~ Refused(s) =>
           /\ users' = UsersAfter(s) /\ links' = LinksAfter(s) /\ tickets' = TicketsAfter(s)
           /\ codes' = CodesAfter(s) /\ tokens' = TokensAfter(s) /\ revoked' = RevokedAfter(s)
      /\ now' = now
  BY <1>1, <1>4, <1>5 DEF Statement, clockVars
<1> QED
  BY <1>1, <1>2, <1>3, <1>4, <1>5, <1>6

LEMMA CarriersFinite ==
  ASSUME TypesInv
  PROVE  /\ IsFiniteSet(Carriers) /\ IsFiniteSet(Users \ Known)
         /\ Cardinality(Carriers) \in Nat /\ Cardinality(Users \ Known) \in Nat
<1>1. IsFiniteSet(Carriers)
  BY LoopAssumption, FS_Subset DEF Carriers
<1>2. IsFiniteSet(Users \ Known)
  BY AccountsAssumption, FS_Subset
<1> QED
  BY <1>1, <1>2, FS_CardinalityType

LEMMA StatementKeeps ==
  ASSUME AccountsInv, NEW r \in Requests, Statement(r)
  PROVE  AccountsInv'
<1>0. PICK s, rest, keys :
           /\ s \in Acts /\ s = Head(todo[r]) /\ todo[r] # <<>> /\ Runnable(r)
           /\ rest = IF Refused(s) THEN <<>> ELSE Then(s, Tail(todo[r]))
           /\ keys = IF Refused(s) \/ (s.op = "match" /\ ~ Usable(s.code, tickets[s.ticket].user)) THEN {}
                     ELSE accepted[r] \cup (IF s.op = "match" THEN {s.code} ELSE {})
           /\ Leaves(r, rest)
           /\ accepted' = [accepted EXCEPT ![r] = IF rest = <<>> THEN {} ELSE keys]
           /\ spent' = spent \cup (IF rest = <<>> THEN keys ELSE {})
                             \cup (IF s.op = "wipe" THEN Held(s.user) ELSE {})
           /\ Refused(s) => UNCHANGED accountTables
           /\ ~ Refused(s) =>
                /\ users' = UsersAfter(s) /\ links' = LinksAfter(s) /\ tickets' = TicketsAfter(s)
                /\ codes' = CodesAfter(s) /\ tokens' = TokensAfter(s) /\ revoked' = RevokedAfter(s)
           /\ now' = now
  BY StatementHas
<1>1. TypesInv /\ KnownInv /\ EmailUnique /\ ListsInv
  BY DEF AccountsInv
<1>2. todo' = [todo EXCEPT ![r] = rest] /\ todo[r] \in Plans /\ 1 \in DOMAIN todo[r] /\ s = todo[r][1]
  BY <1>0, <1>1, HeadIs DEF Leaves
<1>3. PICK B : B = Known'
  OBVIOUS
<1>4. PICK F : F = Fresh'
  OBVIOUS
<1>5. PICK K : K = DOMAIN tickets'
  OBVIOUS
<1>6. PICK G : G = Over'
  OBVIOUS
<1>7. Refused(s) => s.op \in {"insert", "promote", "link"}
  BY DEF Refused
<1>8. /\ users' \in [Users -> UserRows] /\ tickets' \in Seq(TicketRows)
      /\ codes' \in [Codes -> CodeRows] /\ links' \in [Identities -> Users \cup {NoOne}]
      /\ tokens' \in Seq(TokenRows) /\ revoked' \in SUBSET Nat
      /\ KnownInv' /\ EmailUnique' /\ DOMAIN tickets \subseteq K /\ Over \subseteq G
      /\ s.op \in {"use", "spend"} => \A x \in DOMAIN tickets \cup Codes : Spends(s, x) => x \in G
      /\ s.op = "wipe" => Held(s.user) \subseteq G
      /\ B = Known \cup (IF s.op = "insert" /\ ~ Refused(s) THEN {s.user} ELSE {})
      /\ F = Fresh \ (IF s.op = "mint" THEN {s.code} ELSE {})
  <2>1. CASE Refused(s)
    <3>1. UNCHANGED <<users, tickets, codes, links, tokens, revoked>>
      BY <1>0, <2>1 DEF accountTables
    <3>2. KnownInv'
      BY <1>1, <3>1 DEF KnownInv, Known
    <3>3. EmailUnique'
      BY <1>1, <3>1 DEF EmailUnique, Exists
    <3> QED
      BY <1>1, <1>3, <1>4, <1>5, <1>6, <1>7, <2>1, <3>1, <3>2, <3>3 DEF TypesInv, Known, Fresh, Over
  <2>2. CASE ~ Refused(s)
    BY <1>0, <1>3, <1>4, <1>5, <1>6, <2>2, Moves
  <2> QED
    BY <2>1, <2>2
<1>9. Sound(todo[r], Known, Fresh, DOMAIN tickets)
  BY <1>1 DEF ListsInv
<1>10. /\ s.op = "insert" => s.user \in Users \ Known
       /\ s.op = "mint" => s.code \in Fresh
  BY <1>0, HeadSound, ActsAre
<1>11. B \in SUBSET Users
  BY <1>3 DEF Known
<1>12. ASSUME NEW n \in DOMAIN todo[r], n # 1
       PROVE  /\ todo[r][n].op = "insert" => todo[r][n].user \notin B
              /\ todo[r][n].op = "mint" => todo[r][n].code \in F
  BY <1>2, <1>8, <1>9, <1>12 DEF Sound, Makes
<1>13. ASSUME NEW t \in Requests \ {r}, NEW n \in DOMAIN todo[t]
       PROVE  /\ todo[t][n].op = "insert" => todo[t][n].user \notin B
              /\ todo[t][n].op = "mint" => todo[t][n].code \in F
  <2>1. Apart(todo[r], todo[t]) /\ Sound(todo[t], Known, Fresh, DOMAIN tickets)
    BY <1>1 DEF ListsInv
  <2>2. /\ todo[t][n].op = "insert" => todo[t][n].user \notin Known
        /\ todo[t][n].op = "mint" => todo[t][n].code \in Fresh
    BY <2>1 DEF Sound
  <2>3. /\ ~ (s.op = "insert" /\ todo[t][n].op = "insert" /\ s.user = todo[t][n].user)
        /\ ~ (s.op = "mint" /\ todo[t][n].op = "mint" /\ s.code = todo[t][n].code)
    BY <1>2, <2>1 DEF Apart
  <2> QED
    BY <1>8, <2>2, <2>3
<1>14. /\ rest \in Plans /\ Sound(rest, B, F, K)
       /\ \A t \in Requests \ {r} : Apart(rest, todo[t]) /\ Apart(todo[t], rest)
       /\ \A n \in DOMAIN rest : Makes(rest[n]) => r \in Carriers /\ s.op # "insert"
  <2>1. CASE Refused(s)
    <3>1. rest = <<>>
      BY <1>0, <2>1
    <3> QED
      BY <3>1 DEF Plans, Sound, Apart
  <2>2. CASE ~ Refused(s)
    <3>1. /\ rest = Then(s, Tail(todo[r])) /\ Known \subseteq B /\ F \subseteq Fresh
          /\ s.op = "insert" => s.user \in B
          /\ s.op # "insert" => B = Known
      BY <1>0, <1>8, <2>2
    <3>2. /\ \A n \in DOMAIN todo[r] : n # 1 /\ todo[r][n].op = "insert" => todo[r][n].user \notin B
          /\ \A n \in DOMAIN todo[r] : n # 1 /\ todo[r][n].op = "mint" => todo[r][n].code \in F
      BY <1>12
    <3>3. todo[r] # <<>> /\ s = Head(todo[r]) /\ s \in Acts /\ DOMAIN tickets \subseteq K
      BY <1>0, <1>8
    <3> QED
      BY <1>11, <2>2, <3>1, <3>2, <3>3, RestSound, ZenonT(30)
  <2> QED
    BY <2>1, <2>2
<1>15. \A x \in keys : x \in K \cup Codes /\ Admits(rest, x, G)
  <2> SUFFICES ASSUME NEW x \in keys
               PROVE  x \in K \cup Codes /\ Admits(rest, x, G)
    OBVIOUS
  <2>1. /\ ~ Refused(s)
        /\ \/ x \in accepted[r] /\ (s.op = "match" => Usable(s.code, tickets[s.ticket].user))
           \/ s.op = "match" /\ Usable(s.code, tickets[s.ticket].user) /\ x = s.code
    BY <1>0
  <2>2. rest = Then(s, Tail(todo[r]))
    BY <1>0, <2>1
  <2>3. x \in DOMAIN tickets \cup Codes /\ Admits(rest, x, G)
    BY <1>0, <1>8, <2>1, <2>2, KeysFollow
  <2> QED
    BY <1>8, <2>3
<1>16. /\ accepted'[r] = IF rest = <<>> THEN {} ELSE keys
       /\ \A t \in Requests \ {r} : accepted'[t] = accepted[t]
  BY <1>0, <1>1 DEF TypesInv
<1>17. Carriers' \subseteq Carriers \ (IF s.op = "insert" THEN {r} ELSE {})
  <2>1. todo'[r] = rest /\ \A t \in Requests \ {r} : todo'[t] = todo[t]
    BY <1>1, <1>2 DEF TypesInv
  <2> QED
    BY <1>14, <2>1 DEF Carriers
<1>18. Cardinality(Carriers') <= Cardinality(Users \ B)
  <2>1. /\ IsFiniteSet(Carriers) /\ IsFiniteSet(Users \ Known)
        /\ Cardinality(Carriers) \in Nat /\ Cardinality(Users \ Known) \in Nat
        /\ Cardinality(Carriers) <= Cardinality(Users \ Known)
    BY <1>1, CarriersFinite DEF ListsInv
  <2>2. CASE s.op = "insert"
    <3>1. r \in Carriers
      BY <1>2, <2>2 DEF Carriers, Makes
    <3>2. IsFiniteSet(Carriers \ {r}) /\ Cardinality(Carriers \ {r}) = Cardinality(Carriers) - 1
      BY <2>1, <3>1, FS_RemoveElement
    <3>3. /\ IsFiniteSet((Users \ Known) \ {s.user})
          /\ Cardinality((Users \ Known) \ {s.user}) = Cardinality(Users \ Known) - 1
      BY <1>10, <2>1, <2>2, FS_RemoveElement
    <3>4. B = Known \/ Users \ B = (Users \ Known) \ {s.user}
      BY <1>8, <2>2
    <3>5. Cardinality(Carriers') <= Cardinality(Carriers \ {r}) /\ Cardinality(Carriers') \in Nat
      BY <1>17, <2>2, <3>2, FS_Subset, FS_CardinalityType
    <3>6. Cardinality(Carriers') <= Cardinality(Users \ Known) - 1
      BY <2>1, <3>2, <3>5
    <3>7. CASE Users \ B = (Users \ Known) \ {s.user}
      BY <3>3, <3>6, <3>7
    <3>8. CASE B = Known
      BY <2>1, <3>5, <3>6, <3>8
    <3> QED
      BY <3>4, <3>7, <3>8
  <2>3. CASE s.op # "insert"
    <3>1. Cardinality(Carriers') <= Cardinality(Carriers) /\ Cardinality(Carriers') \in Nat
      BY <1>17, <2>1, <2>3, FS_Subset, FS_CardinalityType
    <3>2. B = Known
      BY <1>8, <2>3
    <3> QED
      BY <2>1, <3>1, <3>2
  <2> QED
    BY <2>2, <2>3
<1>19. ListsInv'
  <2>1. \A x \in accepted'[r] : x \in K \cup Codes /\ Admits(rest, x, G)
    BY <1>15, <1>16
  <2>2. Known \subseteq B /\ F \subseteq Fresh /\ DOMAIN tickets \subseteq K /\ Over \subseteq G
    BY <1>8
  <2>3. \A t \in Requests \ {r} : \A n \in DOMAIN todo[t] :
           /\ todo[t][n].op = "insert" => todo[t][n].user \notin B
           /\ todo[t][n].op = "mint" => todo[t][n].code \in F
    BY <1>13
  <2>4. /\ Sound(rest, B, F, K)
        /\ \A t \in Requests \ {r} : Apart(rest, todo[t]) /\ Apart(todo[t], rest)
    BY <1>14
  <2>5. /\ todo' = [todo EXCEPT ![r] = rest]
        /\ \A t \in Requests \ {r} : accepted'[t] = accepted[t]
    BY <1>2, <1>16
  <2> QED
    BY <1>3, <1>4, <1>5, <1>6, <1>18, <2>1, <2>2, <2>3, <2>4, <2>5, ListsKept
<1>20. keys \subseteq Nat \cup Codes
  BY <1>0, <1>1, ActsAre DEF TypesInv
<1>21. spent' \subseteq G
  <2>1. rest = <<>> => \A x \in keys : x \in G
    <3>1. DOMAIN <<>> = {}
      OBVIOUS
    <3> QED
      BY <1>15, <3>1 DEF Admits
  <2> QED
    BY <1>0, <1>1, <1>8, <2>1 DEF TypesInv
<1>22. TypesInv'
  <2>1. todo' \in [Requests -> Plans]
    BY <1>1, <1>2, <1>14 DEF TypesInv
  <2>2. accepted' \in [Requests -> SUBSET (Nat \cup Codes)]
    BY <1>0, <1>1, <1>20 DEF TypesInv
  <2>3. now' \in Nat
    BY <1>0, <1>1 DEF TypesInv
  <2> QED
    BY <1>6, <1>8, <1>21, <2>1, <2>2, <2>3 DEF TypesInv
<1> QED
  BY <1>8, <1>19, <1>22 DEF AccountsInv

-----------------------------------------------------------------------------
(* A request is taken up                                                   *)

LEMMA PlacesReserved ==
  ASSUME AccountsInv
  PROVE  /\ Cardinality(Carriers) <= Reserved({"insert", "profile"})
         /\ Reserved({"insert", "profile"}) \in Nat
<1> DEFINE R == {x \in Requests \X (1 .. 6) :
                   x[2] \in DOMAIN todo[x[1]] /\ todo[x[1]][x[2]].op \in {"insert", "profile"}}
           At(t) == CHOOSE n \in DOMAIN todo[t] : Makes(todo[t][n])
           f == [t \in Carriers |-> <<t, At(t)>>]
<1>1. ASSUME NEW t \in Carriers
      PROVE  f[t] \in R /\ f[t][1] = t
  <2>1. \E n \in DOMAIN todo[t] : Makes(todo[t][n])
    BY DEF Carriers
  <2>2. PICK n : n = At(t)
    OBVIOUS
  <2>3. n \in DOMAIN todo[t] /\ Makes(todo[t][n])
    BY <2>1, <2>2
  <2>4. Sound(todo[t], Known, Fresh, DOMAIN tickets) /\ todo[t] \in Plans
    BY DEF AccountsInv, ListsInv, TypesInv, Carriers
  <2>5. n <= 2 /\ n \in 1 .. 6
    BY <2>3, <2>4 DEF Sound, Plans
  <2>6. f[t] = <<t, n>> /\ t \in Requests
    BY <2>2 DEF Carriers
  <2>7. PICK x : x = <<t, n>>
    OBVIOUS
  <2>8. x \in Requests \X (1 .. 6) /\ x[1] = t /\ x[2] = n
    BY <2>5, <2>6, <2>7
  <2>9. x \in R
    BY <2>3, <2>8 DEF Makes
  <2> QED
    BY <2>6, <2>7, <2>8, <2>9
<1>2. IsFiniteSet(1 .. 6)
  <2>1. PICK a, b \in Nat : a = 1 /\ b = 6
    OBVIOUS
  <2>2. IsFiniteSet(a .. b)
    BY FS_Interval
  <2> QED
    BY <2>1, <2>2
<1>3. IsFiniteSet(Requests \X (1 .. 6))
  BY <1>2, LoopAssumption, FS_Product
<1>4. IsFiniteSet(R) /\ Cardinality(R) \in Nat
  BY <1>3, FS_Subset, FS_CardinalityType
<1>5. f \in [Carriers -> R]
  BY <1>1
<1>6. f \in Injection(Carriers, R)
  <2>1. \A t, w \in Carriers : f[t] = f[w] => t = w
    <3> HIDE DEF f, R
    <3> QED
      BY <1>1
  <2> HIDE DEF f, R
  <2> QED
    BY <1>5, <2>1 DEF Injection, IsInjective
<1>7. Cardinality(Carriers) <= Cardinality(R)
  <2> HIDE DEF f, R
  <2> QED
    BY <1>4, <1>6, FS_Injection
<1>8. Reserved({"insert", "profile"}) = Cardinality(R)
  BY DEF Reserved
<1> QED
  BY <1>4, <1>7, <1>8

LEMMA HandleKeeps ==
  ASSUME AccountsInv, NEW r \in Requests, NEW keys, NEW q \in Plans, Handle(r, keys, q),
         Sound(q, Known, Fresh, DOMAIN tickets),
         \A t \in Requests : Apart(q, todo[t]) /\ Apart(todo[t], q),
         \A x \in keys : x \in DOMAIN tickets \cup Codes /\ Admits(q, x, Over)
  PROVE  AccountsInv'
<1>1. TypesInv /\ KnownInv /\ EmailUnique /\ ListsInv
  BY DEF AccountsInv
<1>2. /\ todo[r] = <<>> /\ todo' = [todo EXCEPT ![r] = q] /\ Fits(q)
      /\ accepted' = [accepted EXCEPT ![r] = keys]
      /\ UNCHANGED <<users, links, tickets, codes, tokens, revoked, now, spent>>
  BY DEF Handle, Begin, Leaves, accountTables
<1>3. Known' = Known /\ Fresh' = Fresh /\ Over' = Over /\ DOMAIN tickets' = DOMAIN tickets
  BY <1>2 DEF Known, Fresh, Over
<1>4. KnownInv' /\ EmailUnique'
  BY <1>1, <1>2, <1>3 DEF KnownInv, EmailUnique, Exists
<1>5. keys \subseteq Nat \cup Codes
  <2>1. DOMAIN tickets \subseteq Nat
    BY <1>1 DEF TypesInv
  <2> QED
    BY <2>1
<1>6. TypesInv'
  BY <1>1, <1>2, <1>3, <1>5 DEF TypesInv
<1>7. todo'[r] = q /\ \A t \in Requests \ {r} : todo'[t] = todo[t]
  BY <1>1, <1>2 DEF TypesInv
<1>8. /\ IsFiniteSet(Carriers) /\ Cardinality(Carriers) \in Nat /\ Cardinality(Users \ Known) \in Nat
      /\ Cardinality(Carriers) <= Cardinality(Users \ Known)
  BY <1>1, CarriersFinite DEF ListsInv
<1>9. Cardinality(Carriers') <= Cardinality(Users \ Known)
  <2>1. CASE \A n \in DOMAIN q : ~ Makes(q[n])
    <3>1. Carriers' \subseteq Carriers
      BY <1>7, <2>1 DEF Carriers
    <3>2. Cardinality(Carriers') <= Cardinality(Carriers) /\ Cardinality(Carriers') \in Nat
      BY <1>8, <3>1, FS_Subset, FS_CardinalityType
    <3> QED
      BY <1>8, <3>2
  <2>2. CASE \E n \in DOMAIN q : Makes(q[n])
    <3> DEFINE M == {n \in DOMAIN q : q[n].op \in {"insert", "profile"}}
               N == {u \in Users : users[u].in = "no"}
    <3>1. Reserved({"insert", "profile"}) + Of(q, {"insert", "profile"}) <= Cardinality(N)
      BY <1>2 DEF Fits
    <3>2. N = Users \ Known
      BY DEF Known
    <3>3. M # {} /\ IsFiniteSet(M)
      <4>1. M # {}
        BY <2>2 DEF Makes
      <4>2. IsFiniteSet(DOMAIN q)
        BY FS_Interval DEF Plans
      <4> QED
        BY <4>1, <4>2, FS_Subset
    <3>4. Cardinality(M) \in Nat /\ Cardinality(M) # 0
      BY <3>3, FS_EmptySet, FS_CardinalityType
    <3>5. Of(q, {"insert", "profile"}) = Cardinality(M)
      BY DEF Of
    <3>6. Cardinality(Carriers) <= Reserved({"insert", "profile"}) /\ Reserved({"insert", "profile"}) \in Nat
      BY PlacesReserved
    <3>7. Cardinality(Carriers) + 1 <= Cardinality(Users \ Known)
      <4> HIDE DEF M, N
      <4> QED
        BY <1>8, <3>1, <3>2, <3>4, <3>5, <3>6
    <3>8. Carriers' \subseteq Carriers \cup {r}
      BY <1>7 DEF Carriers
    <3>9. IsFiniteSet(Carriers \cup {r}) /\ Cardinality(Carriers \cup {r}) <= Cardinality(Carriers) + 1
      <4>1. /\ IsFiniteSet(Carriers \cup {r})
            /\ Cardinality(Carriers \cup {r}) = IF r \in Carriers THEN Cardinality(Carriers) ELSE Cardinality(Carriers) + 1
        BY <1>8, FS_AddElement
      <4> QED
        BY <1>8, <4>1
    <3>10. /\ Cardinality(Carriers') <= Cardinality(Carriers \cup {r}) /\ Cardinality(Carriers') \in Nat
           /\ Cardinality(Carriers \cup {r}) \in Nat
      BY <3>8, <3>9, FS_Subset, FS_CardinalityType
    <3> QED
      BY <1>8, <3>7, <3>9, <3>10
  <2> QED
    BY <2>1, <2>2
<1>10. ListsInv'
  <2>1. PICK B : B = Known
    OBVIOUS
  <2>2. PICK F : F = Fresh
    OBVIOUS
  <2>3. PICK K : K = DOMAIN tickets
    OBVIOUS
  <2>4. PICK G : G = Over
    OBVIOUS
  <2>5. B = Known' /\ F = Fresh' /\ K = DOMAIN tickets' /\ G = Over'
    BY <1>3, <2>1, <2>2, <2>3, <2>4
  <2>6. \A t \in Requests \ {r} : \A n \in DOMAIN todo[t] :
           /\ todo[t][n].op = "insert" => todo[t][n].user \notin B
           /\ todo[t][n].op = "mint" => todo[t][n].code \in F
    BY <1>1, <2>1, <2>2 DEF ListsInv, Sound
  <2>7. /\ accepted'[r] = keys
        /\ \A t \in Requests \ {r} : accepted'[t] = accepted[t]
    BY <1>1, <1>2 DEF TypesInv
  <2>8. \A x \in accepted'[r] : x \in K \cup Codes /\ Admits(q, x, G)
    BY <2>3, <2>4, <2>7
  <2>9. /\ Sound(q, B, F, K) /\ Cardinality(Carriers') <= Cardinality(Users \ B)
        /\ Known \subseteq B /\ F \subseteq Fresh /\ DOMAIN tickets \subseteq K /\ Over \subseteq G
    BY <1>9, <2>1, <2>2, <2>3, <2>4
  <2>10. \A t \in Requests \ {r} : Apart(q, todo[t]) /\ Apart(todo[t], q)
    OBVIOUS
  <2>11. todo' = [todo EXCEPT ![r] = q]
    BY <1>2
  <2> QED
    BY <2>5, <2>6, <2>7, <2>8, <2>9, <2>10, <2>11, ListsKept
<1> QED
  BY <1>4, <1>6, <1>10 DEF AccountsInv

(* What a handler has read and decided lets it end as it should.           *)
Lets(keys, q) ==
  \A x \in keys : x \in DOMAIN tickets /\ ~ tickets[x].used /\ \E n \in DOMAIN q : Spends(q[n], x)
TakenUp(r) ==
  \E q, keys :
    /\ q \in Plans /\ Handle(r, keys, q) /\ Lets(keys, q)
    /\ Sound(q, Known, Fresh, DOMAIN tickets)
    /\ \A t \in Requests : Apart(q, todo[t]) /\ Apart(todo[t], q)

Quiet == Seq(Calm(Known, Fresh))

LEMMA QuietTaken ==
  ASSUME NEW r, NEW q \in Quiet, NEW keys, Handle(r, keys, q),
         keys = {} \/ \E k \in DOMAIN tickets : keys = {k} /\ ~ tickets[k].used /\ \E n \in DOMAIN q : q[n] = Use(k)
  PROVE  TakenUp(r)
<1>1. /\ q \in Plans /\ Sound(q, Known, Fresh, DOMAIN tickets)
      /\ \A t \in Requests : Apart(q, todo[t]) /\ Apart(todo[t], q)
  BY CalmSound DEF Quiet
<1>2. Lets(keys, q)
  <2>1. \A k : Spends(Use(k), k)
    BY DEF Spends, Use
  <2> QED
    BY <2>1 DEF Lets
<1> QED
  BY <1>1, <1>2 DEF TakenUp

LEMMA QuietLists ==
  ASSUME NEW a \in Calm(Known, Fresh), NEW b \in Calm(Known, Fresh), NEW c \in Calm(Known, Fresh)
  PROVE  /\ <<>> \in Quiet /\ <<a>> \in Quiet /\ <<a, b>> \in Quiet /\ <<a, b, c>> \in Quiet
  BY Lists DEF Quiet

LEMMA QuietJoined ==
  ASSUME NEW p \in Quiet, NEW q \in Quiet
  PROVE  /\ p \o q \in Quiet
         /\ \A x : (\E n \in DOMAIN p : p[n] = x) => \E n \in DOMAIN (p \o q) : (p \o q)[n] = x
         /\ \A x : (\E n \in DOMAIN q : q[n] = x) => \E n \in DOMAIN (p \o q) : (p \o q)[n] = x
<1>1. p \o q \in Quiet
  BY DEF Quiet
<1>2. PICK w : w = p \o q
  OBVIOUS
<1>3. /\ DOMAIN p = 1 .. Len(p) /\ DOMAIN q = 1 .. Len(q) /\ Len(p) \in Nat /\ Len(q) \in Nat
      /\ DOMAIN w = 1 .. (Len(p) + Len(q))
      /\ \A n \in 1 .. Len(p) : w[n] = p[n]
      /\ \A n \in 1 .. Len(q) : w[Len(p) + n] = q[n]
  BY <1>2 DEF Quiet
<1>4. ASSUME NEW n \in DOMAIN q
      PROVE  Len(p) + n \in DOMAIN w /\ w[Len(p) + n] = q[n]
  BY <1>3
<1>5. ASSUME NEW n \in DOMAIN p
      PROVE  n \in DOMAIN w /\ w[n] = p[n]
  BY <1>3
<1> QED
  BY <1>1, <1>2, <1>4, <1>5

LEMMA QuietActs ==
  ASSUME AccountsInv
  PROVE  /\ Await \in Calm(Known, Fresh)
         /\ \A u \in Known : /\ u \in Users /\ Sign(u, TRUE) \in Calm(Known, Fresh)
                             /\ Sign(u, FALSE) \in Calm(Known, Fresh)
                             /\ Verified(u) \in Calm(Known, Fresh) /\ Passkey(u) \in Calm(Known, Fresh)
         /\ \A u \in Known, x \in Purposes : Issue(u, x, NoOne) \in Calm(Known, Fresh)
         /\ \A k \in DOMAIN tickets : /\ tickets[k].user \in Known /\ k \in Nat
                                      /\ tickets[k].attempts \in Nat /\ Use(k) \in Calm(Known, Fresh)
         /\ \A j \in DOMAIN tokens : tokens[j].user \in Known /\ j \in Nat
         /\ \A e, u : u \in ByEmail(e) => u \in Known
         /\ \A u : Exists(u) => u \in Known
<1>1. /\ Known \in SUBSET Users
      /\ \A e, u : u \in ByEmail(e) => u \in Known
      /\ \A u : Exists(u) => u \in Known
  BY DEF Known, ByEmail, Exists
<1>2. \A k \in DOMAIN tickets : k \in Nat /\ tickets[k] \in TicketRows /\ tickets[k].user \in Known
  BY DEF AccountsInv, TypesInv, KnownInv
<1>3. \A j \in DOMAIN tokens : tokens[j].user \in Known /\ j \in Nat
  BY DEF AccountsInv, TypesInv, KnownInv
<1>4. \A k \in DOMAIN tickets : tickets[k].attempts \in Nat
  BY <1>2 DEF TicketRows
<1>5. /\ Await \in Calm(Known, Fresh)
      /\ \A u \in Known : /\ u \in Users /\ Sign(u, TRUE) \in Calm(Known, Fresh)
                             /\ Sign(u, FALSE) \in Calm(Known, Fresh)
                             /\ Verified(u) \in Calm(Known, Fresh) /\ Passkey(u) \in Calm(Known, Fresh)
      /\ \A u \in Known, x \in Purposes : Issue(u, x, NoOne) \in Calm(Known, Fresh)
      /\ \A k \in Nat : Use(k) \in Calm(Known, Fresh)
  BY <1>1, CalmActs
<1> QED
  BY <1>1, <1>2, <1>3, <1>4, <1>5

LEMMA SecondQuiet ==
  ASSUME AccountsInv, NEW u \in Known
  PROVE  SecondStep(u) \in Quiet
<1>1. Issue(u, "mfa_ticket", NoOne) \in Calm(Known, Fresh) /\ Sign(u, TRUE) \in Calm(Known, Fresh)
  BY QuietActs DEF Purposes
<1> QED
  BY <1>1, QuietLists DEF SecondStep

LEMMA InLists ==
  ASSUME NEW a, NEW b, NEW c
  PROVE  /\ \E n \in DOMAIN <<a>> : <<a>>[n] = a
         /\ \E n \in DOMAIN <<a, b>> : <<a, b>>[n] = a
         /\ \E n \in DOMAIN <<a, b>> : <<a, b>>[n] = b
         /\ \E n \in DOMAIN <<a, b, c>> : <<a, b, c>>[n] = b
         /\ \E n \in DOMAIN <<a, b, c>> : <<a, b, c>>[n] = c
<1>1. PICK p : p = <<a>>
  OBVIOUS
<1>2. PICK q : q = <<a, b>>
  OBVIOUS
<1>3. PICK w : w = <<a, b, c>>
  OBVIOUS
<1>4. 1 \in DOMAIN p /\ p[1] = a
  BY <1>1
<1>5. 1 \in DOMAIN q /\ q[1] = a /\ 2 \in DOMAIN q /\ q[2] = b
  BY <1>2
<1>6. 2 \in DOMAIN w /\ w[2] = b /\ 3 \in DOMAIN w /\ w[3] = c
  BY <1>3
<1>7. \E n \in DOMAIN p : p[n] = a
  BY <1>4
<1>8. (\E n \in DOMAIN q : q[n] = a) /\ (\E n \in DOMAIN q : q[n] = b)
  BY <1>5
<1>9. (\E n \in DOMAIN w : w[n] = b) /\ (\E n \in DOMAIN w : w[n] = c)
  BY <1>6
<1> QED
  BY <1>1, <1>2, <1>3, <1>7, <1>8, <1>9

(* Lists of one, two or three, let in by nothing or by a ticket they use.  *)
LEMMA ShortTaken ==
  ASSUME NEW r, NEW a \in Calm(Known, Fresh), NEW b \in Calm(Known, Fresh), NEW c \in Calm(Known, Fresh)
  PROVE  /\ Handle(r, {}, <<a>>) => TakenUp(r)
         /\ Handle(r, {}, <<a, b>>) => TakenUp(r)
         /\ Handle(r, {}, <<a, b, c>>) => TakenUp(r)
         /\ \A k \in DOMAIN tickets : ~ tickets[k].used =>
              /\ Handle(r, {k}, <<Use(k), b>>) /\ a = Use(k) => TakenUp(r)
              /\ Handle(r, {k}, <<a, Use(k)>>) /\ b = Use(k) => TakenUp(r)
              /\ Handle(r, {k}, <<a, Use(k), c>>) /\ b = Use(k) => TakenUp(r)
              /\ Handle(r, {k}, <<a, b, Use(k)>>) /\ c = Use(k) => TakenUp(r)
<1>1. <<a>> \in Quiet /\ <<a, b>> \in Quiet /\ <<a, b, c>> \in Quiet
  BY QuietLists
<1>2. /\ Handle(r, {}, <<a>>) => TakenUp(r)
      /\ Handle(r, {}, <<a, b>>) => TakenUp(r)
      /\ Handle(r, {}, <<a, b, c>>) => TakenUp(r)
  BY <1>1, QuietTaken
<1>3. ASSUME NEW k \in DOMAIN tickets, ~ tickets[k].used, NEW q \in Quiet,
             \E n \in DOMAIN q : q[n] = Use(k), Handle(r, {k}, q)
      PROVE  TakenUp(r)
  BY <1>3, QuietTaken
<1>4. ASSUME NEW k \in DOMAIN tickets, ~ tickets[k].used
      PROVE  /\ Handle(r, {k}, <<Use(k), b>>) /\ a = Use(k) => TakenUp(r)
             /\ Handle(r, {k}, <<a, Use(k)>>) /\ b = Use(k) => TakenUp(r)
             /\ Handle(r, {k}, <<a, Use(k), c>>) /\ b = Use(k) => TakenUp(r)
             /\ Handle(r, {k}, <<a, b, Use(k)>>) /\ c = Use(k) => TakenUp(r)
  <2>1. ASSUME Handle(r, {k}, <<Use(k), b>>), a = Use(k)
        PROVE  TakenUp(r)
    <3>1. PICK q : q = <<a, b>>
      OBVIOUS
    <3>2. q \in Quiet /\ \E n \in DOMAIN q : q[n] = Use(k)
      BY <1>1, <2>1, <3>1, InLists
    <3> QED
      BY <1>3, <1>4, <2>1, <3>1, <3>2
  <2>2. ASSUME Handle(r, {k}, <<a, Use(k)>>), b = Use(k)
        PROVE  TakenUp(r)
    <3>1. PICK q : q = <<a, b>>
      OBVIOUS
    <3>2. q \in Quiet /\ \E n \in DOMAIN q : q[n] = Use(k)
      BY <1>1, <2>2, <3>1, InLists
    <3> QED
      BY <1>3, <1>4, <2>2, <3>1, <3>2
  <2>3. ASSUME \/ Handle(r, {k}, <<a, Use(k), c>>) /\ b = Use(k)
               \/ Handle(r, {k}, <<a, b, Use(k)>>) /\ c = Use(k)
        PROVE  TakenUp(r)
    <3>1. PICK q : q = <<a, b, c>>
      OBVIOUS
    <3>2. q \in Quiet /\ \E n \in DOMAIN q : q[n] = Use(k)
      BY <1>1, <2>3, <3>1, InLists
    <3> QED
      BY <1>3, <1>4, <2>3, <3>1, <3>2
  <2> QED
    BY <2>1, <2>2, <2>3
<1> QED
  BY <1>2, <1>4

LEMMA MailTaken ==
  ASSUME AccountsInv, NEW r \in Requests
  PROVE  Mail(r) \/ Mailed(r) => TakenUp(r)
<1>1. ASSUME NEW e, RequestPasswordReset(r, e) \/ OtpRequest(r, e)
      PROVE  TakenUp(r)
  <2>1. PICK u \in ByEmail(e), x \in Purposes : Handle(r, {}, <<Issue(u, x, NoOne)>>)
    BY <1>1 DEF RequestPasswordReset, OtpRequest, Purposes
  <2>2. Issue(u, x, NoOne) \in Calm(Known, Fresh)
    BY <2>1, QuietActs
  <2> QED
    BY <2>1, <2>2, ShortTaken
<1>2. ASSUME NEW k \in DOMAIN tickets, VerifyEmail(r, k)
      PROVE  TakenUp(r)
  <2>1. /\ ~ tickets[k].used /\ Use(k) \in Calm(Known, Fresh)
        /\ Verified(tickets[k].user) \in Calm(Known, Fresh)
    BY <1>2, QuietActs DEF VerifyEmail, Live
  <2>2. PICK a : a = Verified(tickets[k].user)
    OBVIOUS
  <2>3. Handle(r, {k}, <<a, Use(k)>>)
    BY <1>2, <2>2 DEF VerifyEmail
  <2> QED
    BY <2>1, <2>2, <2>3, ShortTaken
<1>3. ASSUME NEW k \in DOMAIN tickets, NEW p \in Passwords, ConfirmPasswordReset(r, k, p)
      PROVE  TakenUp(r)
  <2>1. PICK a : a = Reset(tickets[k].user, p, now)
    OBVIOUS
  <2>2. /\ ~ tickets[k].used /\ Use(k) \in Calm(Known, Fresh) /\ Await \in Calm(Known, Fresh)
        /\ tickets[k].user \in Users
    BY <1>3, QuietActs DEF ConfirmPasswordReset, Live
  <2>3. now \in Nat /\ Known \in SUBSET Users
    BY DEF AccountsInv, TypesInv, Known
  <2>4. a \in Calm(Known, Fresh)
    BY <2>1, <2>2, <2>3, CalmActs
  <2>5. Handle(r, {k}, <<Await, a, Use(k)>>)
    BY <1>3, <2>1 DEF ConfirmPasswordReset
  <2> QED
    BY <2>2, <2>4, <2>5, ShortTaken
<1>4. ASSUME NEW k \in DOMAIN tickets, OtpAuth(r, k)
      PROVE  TakenUp(r)
  <2>1. PICK u : u = tickets[k].user
    OBVIOUS
  <2>2. PICK n : n = tickets[k].attempts
    OBVIOUS
  <2>3. /\ ~ tickets[k].used /\ Use(k) \in Calm(Known, Fresh) /\ u \in Known /\ n \in Nat /\ k \in Nat
        /\ Verified(u) \in Calm(Known, Fresh)
    BY <1>4, <2>1, <2>2, QuietActs DEF OtpAuth, Live
  <2>4. \/ Handle(r, {}, <<Use(k)>>) \/ Handle(r, {}, <<Attempt(k, n + 1)>>)
        \/ Handle(r, {k}, <<Use(k)>> \o (IF users[u].verified THEN <<>> ELSE <<Verified(u)>>) \o SecondStep(u))
    BY <1>4, <2>1, <2>2 DEF OtpAuth
  <2>5. CASE Handle(r, {}, <<Use(k)>>)
    BY <2>3, <2>5, ShortTaken
  <2>6. CASE Handle(r, {}, <<Attempt(k, n + 1)>>)
    <3>1. Known \in SUBSET Users /\ n + 1 \in Nat
      BY <2>3 DEF Known
    <3>2. PICK m \in Nat : m = n + 1
      BY <3>1
    <3>3. Attempt(k, m) \in Calm(Known, Fresh)
      BY <2>3, <3>1, CalmActs
    <3> QED
      BY <2>6, <3>2, <3>3, ShortTaken
  <2>7. CASE Handle(r, {k}, <<Use(k)>> \o (IF users[u].verified THEN <<>> ELSE <<Verified(u)>>) \o SecondStep(u))
    <3>1. PICK p : p = <<Use(k)>>
      OBVIOUS
    <3>2. PICK v : v = IF users[u].verified THEN <<>> ELSE <<Verified(u)>>
      OBVIOUS
    <3>3. PICK w : w = SecondStep(u)
      OBVIOUS
    <3>4. p \in Quiet /\ v \in Quiet /\ w \in Quiet
      BY <2>3, <3>1, <3>2, <3>3, QuietLists, SecondQuiet
    <3>5. p \o v \in Quiet /\ \E i \in DOMAIN (p \o v) : (p \o v)[i] = Use(k)
      BY <3>1, <3>4, InLists, QuietJoined
    <3>6. PICK y : y = p \o v
      OBVIOUS
    <3>7. y \o w \in Quiet /\ \E i \in DOMAIN (y \o w) : (y \o w)[i] = Use(k)
      BY <3>4, <3>5, <3>6, QuietJoined
    <3>8. Handle(r, {k}, y \o w)
      BY <2>7, <3>1, <3>2, <3>3, <3>6
    <3> QED
      BY <2>3, <3>7, <3>8, QuietTaken
  <2> QED
    BY <2>4, <2>5, <2>6, <2>7
<1> QED
  BY <1>1, <1>2, <1>3, <1>4 DEF Mail, Mailed

LEMMA MakingTaken ==
  ASSUME AccountsInv, NEW r, NEW u \in Unborn, NEW e \in Emails, NEW p \in Passwords \cup {NoOne},
         NEW a \in BOOLEAN, NEW b \in BOOLEAN, NEW q, Handle(r, {}, q),
         \/ \E x \in Purposes, i \in Identities \cup {NoOne} :
              q = <<Await, Insert(u, e, p, a, b), Issue(u, x, i)>>
         \/ q = <<Await, Insert(u, e, p, a, b), Sign(u, TRUE)>>
  PROVE  TakenUp(r)
<1>1. /\ q \in Plans /\ Sound(q, Known, Fresh, DOMAIN tickets)
      /\ \A t \in Requests : Apart(q, todo[t]) /\ Apart(todo[t], q)
  BY Making, ZenonT(30)
<1>2. Lets({}, q)
  BY DEF Lets
<1> QED
  BY <1>1, <1>2 DEF TakenUp

LEMMA SignUpTaken ==
  ASSUME AccountsInv, NEW r \in Requests, NEW typed, typed \subseteq Passwords
  PROVE  SignUp(r, typed) => TakenUp(r)
<1>1. ASSUME Anonymous(r)
      PROVE  TakenUp(r)
  <2>1. PICK u \in Unborn, e \in Emails : Handle(r, {}, <<Await, Insert(u, e, NoOne, FALSE, TRUE), Sign(u, TRUE)>>)
    BY <1>1 DEF Anonymous
  <2>2. PICK q : q = <<Await, Insert(u, e, NoOne, FALSE, TRUE), Sign(u, TRUE)>>
    OBVIOUS
  <2> QED
    BY <2>1, <2>2, MakingTaken
<1>2. ASSUME NEW e \in Emails, NEW p \in Passwords, Register(r, e, p)
      PROVE  TakenUp(r)
  <2>1. CASE \E u \in ByEmail(e) : Handle(r, {}, <<Issue(u, "password_reset", NoOne)>>)
    <3>1. PICK u \in ByEmail(e) : Handle(r, {}, <<Issue(u, "password_reset", NoOne)>>)
      BY <2>1
    <3>2. Issue(u, "password_reset", NoOne) \in Calm(Known, Fresh)
      BY <3>1, QuietActs DEF Purposes
    <3> QED
      BY <3>1, <3>2, ShortTaken
  <2>2. CASE \E u \in Unborn : Handle(r, {}, <<Await, Insert(u, e, p, FALSE, FALSE), Issue(u, "email_verify", NoOne)>>)
    <3>1. PICK u \in Unborn : Handle(r, {}, <<Await, Insert(u, e, p, FALSE, FALSE), Issue(u, "email_verify", NoOne)>>)
      BY <2>2
    <3>2. PICK q : q = <<Await, Insert(u, e, p, FALSE, FALSE), Issue(u, "email_verify", NoOne)>>
      OBVIOUS
    <3>3. \E x \in Purposes, i \in Identities \cup {NoOne} :
            q = <<Await, Insert(u, e, p, FALSE, FALSE), Issue(u, x, i)>>
      BY <3>2 DEF Purposes
    <3>4. Handle(r, {}, q)
      BY <3>1, <3>2
    <3> QED
      BY <3>3, <3>4, MakingTaken
  <2> QED
    BY <1>2, <2>1, <2>2 DEF Register
<1> QED
  BY <1>1, <1>2 DEF SignUp

LEMMA PasswordTaken ==
  ASSUME AccountsInv, NEW r \in Requests
  PROVE  Password(r) => TakenUp(r)
<1> SUFFICES ASSUME NEW e, NEW p, Login(r, e, p)
             PROVE  TakenUp(r)
  BY DEF Password
<1>1. PICK u \in ByEmail(e) : Handle(r, {}, <<Await>> \o SecondStep(u))
  BY DEF Login
<1>2. <<Await>> \in Quiet /\ SecondStep(u) \in Quiet
  BY QuietActs, QuietLists, SecondQuiet
<1>3. <<Await>> \o SecondStep(u) \in Quiet
  BY <1>2, QuietJoined
<1> QED
  BY <1>1, <1>3, QuietTaken

LEMMA SessionTaken ==
  ASSUME AccountsInv, NEW r \in Requests
  PROVE  Session(r) => TakenUp(r)
<1> SUFFICES ASSUME NEW j \in DOMAIN tokens, Logout(r, j) \/ Refresh(r, j) \/ RequestVerify(r, j)
             PROVE  TakenUp(r)
  BY DEF Session
<1>1. PICK u : u = tokens[j].user
  OBVIOUS
<1>2. u \in Known /\ j \in Nat
  BY <1>1, QuietActs
<1>3. /\ Revoke(j) \in Calm(Known, Fresh) /\ Sign(u, FALSE) \in Calm(Known, Fresh)
      /\ Issue(u, "email_verify", NoOne) \in Calm(Known, Fresh)
  <2>1. Known \in SUBSET Users
    BY DEF Known
  <2> QED
    BY <1>2, <2>1, QuietActs, CalmActs DEF Purposes
<1>4. \/ Handle(r, {}, <<Revoke(j)>>) \/ Handle(r, {}, <<Sign(u, FALSE)>>)
      \/ Handle(r, {}, <<Issue(u, "email_verify", NoOne)>>)
  BY <1>1 DEF Logout, Refresh, RequestVerify
<1> QED
  BY <1>3, <1>4, ShortTaken

LEMMA KeyTaken ==
  ASSUME AccountsInv, NEW r \in Requests
  PROVE  Key(r) => TakenUp(r)
<1>1. ASSUME NEW j \in DOMAIN tokens, NEW k \in DOMAIN tickets, PasskeyRegister(r, j, k)
      PROVE  TakenUp(r)
  <2>1. PICK a : a = Passkey(tokens[j].user)
    OBVIOUS
  <2>2. /\ ~ tickets[k].used /\ Use(k) \in Calm(Known, Fresh) /\ Await \in Calm(Known, Fresh)
        /\ a \in Calm(Known, Fresh)
    BY <1>1, <2>1, QuietActs DEF PasskeyRegister, Live
  <2>3. Handle(r, {k}, <<Await, Use(k), a>>)
    BY <1>1, <2>1 DEF PasskeyRegister
  <2> QED
    BY <2>2, <2>3, ShortTaken
<1>2. ASSUME NEW j \in DOMAIN tokens, PasskeyOptions(r, j)
      PROVE  TakenUp(r)
  <2>1. PICK u : u = tokens[j].user
    OBVIOUS
  <2>2. Handle(r, {}, <<Issue(u, "webauthn_reg", NoOne)>>)
    BY <1>2, <2>1 DEF PasskeyOptions
  <2>3. Issue(u, "webauthn_reg", NoOne) \in Calm(Known, Fresh)
    BY <2>1, QuietActs DEF Purposes
  <2> QED
    BY <2>2, <2>3, ShortTaken
<1>3. ASSUME NEW k \in DOMAIN tickets, NEW u \in Users, PasskeyLogin(r, k, u)
      PROVE  TakenUp(r)
  <2>1. ~ tickets[k].used /\ Use(k) \in Calm(Known, Fresh) /\ Await \in Calm(Known, Fresh)
    BY <1>3, QuietActs DEF PasskeyLogin, Live
  <2>2. CASE Handle(r, {}, <<Use(k)>>)
    BY <2>1, <2>2, ShortTaken
  <2>3. CASE Exists(u) /\ Handle(r, {k}, <<Await, Use(k), Sign(u, TRUE)>>)
    <3>1. Sign(u, TRUE) \in Calm(Known, Fresh)
      BY <2>3, QuietActs
    <3> QED
      BY <2>1, <2>3, <3>1, ShortTaken
  <2> QED
    BY <1>3, <2>2, <2>3 DEF PasskeyLogin
<1>4. ASSUME NEW e \in Emails, PasskeyLoginOptions(r, e)
      PROVE  TakenUp(r)
  <2>1. PICK u \in ByEmail(e) : Handle(r, {}, <<Await, Issue(u, "webauthn_auth", NoOne)>>)
    BY <1>4 DEF PasskeyLoginOptions
  <2>2. Issue(u, "webauthn_auth", NoOne) \in Calm(Known, Fresh) /\ Await \in Calm(Known, Fresh)
    BY <2>1, QuietActs DEF Purposes
  <2> QED
    BY <2>1, <2>2, ShortTaken
<1> QED
  BY <1>1, <1>2, <1>3, <1>4 DEF Key

LEMMA CodesTaken ==
  ASSUME AccountsInv, NEW r \in Requests, NEW j \in DOMAIN tokens, NEW c \in Codes, RegenerateCodes(r, j, c)
  PROVE  TakenUp(r)
<1>1. PICK u : u = tokens[j].user
  OBVIOUS
<1>2. PICK w, m, l : w = Wipe(u, TRUE) /\ m = Mint(c, u) /\ l = Lookup(c)
  OBVIOUS
<1>3. PICK q : q = <<w, Await, m, l>>
  OBVIOUS
<1>4. Handle(r, {}, q) /\ c \in Unminted
  BY <1>1, <1>2, <1>3 DEF RegenerateCodes
<1>5. u \in Known /\ u \in Users
  BY <1>1, QuietActs
<1>6. /\ w \in Acts /\ m \in Acts /\ l \in Acts /\ w.op = "wipe" /\ m.op = "mint" /\ l.op = "lookup"
      /\ m.code = c
  BY <1>2, <1>5 DEF Acts, Wipe, Mint, Lookup
<1>7. q \in Plans /\ DOMAIN q = 1 .. 4 /\ q[1] = w /\ q[2] = Await /\ q[3] = m /\ q[4] = l
  BY <1>3, <1>6 DEF Plans
<1>8. \A n \in DOMAIN q : n \in {1, 2, 3, 4}
  BY <1>7
<1>9. /\ \A n \in DOMAIN q : q[n].op \in {"wipe", "await", "mint", "lookup"}
      /\ \A n \in DOMAIN q : q[n].op = "mint" => n = 3 /\ q[n].code = c
  BY <1>6, <1>7, <1>8 DEF Await
<1>10. c \in Fresh /\ \A t \in Requests : \A n \in DOMAIN todo[t] : ~ (todo[t][n].op = "mint" /\ todo[t][n].code = c)
  <2>1. c \in Fresh
    BY <1>4 DEF Unminted, Fresh
  <2>2. ASSUME NEW t \in Requests, NEW n \in DOMAIN todo[t], todo[t][n].op = "mint", todo[t][n].code = c
        PROVE  FALSE
    <3>1. todo[t][n] \in {todo[t][i] : i \in DOMAIN todo[t]}
      OBVIOUS
    <3>2. todo[t][n] \in Pending
      BY <3>1 DEF Pending
    <3> QED
      BY <1>4, <2>2, <3>2 DEF Unminted
  <2> QED
    BY <2>1, <2>2
<1>11. Sound(q, Known, Fresh, DOMAIN tickets)
  BY <1>9, <1>10 DEF Sound, Makes
<1>12. \A t \in Requests : Apart(q, todo[t]) /\ Apart(todo[t], q)
  BY <1>9, <1>10 DEF Apart
<1>13. Lets({}, q)
  BY DEF Lets
<1> QED
  BY <1>4, <1>7, <1>11, <1>12, <1>13 DEF TakenUp

(* A list that waits and then reads what decides the rest.                 *)
LEMMA ReadTaken ==
  ASSUME AccountsInv, NEW r \in Requests, NEW s \in Acts, NEW keys, Handle(r, keys, <<Await, s>>),
         \/ s.op = "profile" /\ keys = {}
         \/ /\ s.op = "match" /\ s.ticket \in DOMAIN tickets /\ keys = {s.ticket}
            /\ ~ tickets[s.ticket].used
  PROVE  TakenUp(r)
<1>1. PICK q : q = <<Await, s>>
  OBVIOUS
<1>2. q \in Plans /\ Len(q) = 2 /\ DOMAIN q = 1 .. 2 /\ q[1] = Await /\ q[2] = s
  BY <1>1 DEF Plans
<1>3. \A n \in DOMAIN q : n \in {1, 2}
  BY <1>2
<1>4. \A n \in DOMAIN q : q[n].op # "await" => n = 2 /\ q[n] = s
  BY <1>2, <1>3 DEF Await
<1>5. \A n \in DOMAIN q : q[n].op \in {"await", "profile", "match"}
  BY <1>4
<1>6. Sound(q, Known, Fresh, DOMAIN tickets)
  BY <1>2, <1>4, <1>5 DEF Sound, Makes
<1>7. \A t \in Requests : Apart(q, todo[t]) /\ Apart(todo[t], q)
  BY <1>5 DEF Apart
<1>8. Lets(keys, q)
  BY <1>2 DEF Lets, Spends
<1> QED
  BY <1>1, <1>2, <1>6, <1>7, <1>8 DEF TakenUp

LEMMA FactorTaken ==
  ASSUME AccountsInv, NEW r \in Requests
  PROVE  Factor(r) => TakenUp(r)
<1>1. Known \in SUBSET Users /\ users \in [Users -> UserRows]
  BY DEF Known, AccountsInv, TypesInv
<1>2. ASSUME NEW u \in Known, NEW a \in BOOLEAN, NEW b \in BOOLEAN, Handle(r, {}, <<Totp(u, a, b)>>)
      PROVE  TakenUp(r)
  <2>1. Totp(u, a, b) \in Calm(Known, Fresh)
    BY <1>1, CalmActs
  <2> QED
    BY <1>2, <2>1, ShortTaken
<1>3. ASSUME NEW u \in Known, TotpOff(r, u)
      PROVE  TakenUp(r)
  <2>1. Totp(u, FALSE, FALSE) \in Calm(Known, Fresh) /\ Wipe(u, FALSE) \in Calm(Known, Fresh)
    BY <1>1, CalmActs
  <2>2. Handle(r, {}, <<Totp(u, FALSE, FALSE), Wipe(u, FALSE)>>)
    BY <1>3 DEF TotpOff
  <2> QED
    BY <2>1, <2>2, ShortTaken
<1>4. ASSUME NEW j \in DOMAIN tokens, TotpSetup(r, j) \/ TotpConfirm(r, j) \/ TotpDisable(r, j)
      PROVE  TakenUp(r)
  <2>1. PICK u : u = tokens[j].user
    OBVIOUS
  <2>2. u \in Known /\ users[u].enabled \in BOOLEAN
    <3>1. u \in Known
      BY <2>1, QuietActs
    <3>2. users[u] \in UserRows
      BY <1>1, <3>1
    <3> QED
      BY <3>1, <3>2 DEF UserRows
  <2>3. PICK b : b = users[u].enabled
    OBVIOUS
  <2>4. \/ Handle(r, {}, <<Totp(u, TRUE, b)>>) \/ Handle(r, {}, <<Totp(u, TRUE, TRUE)>>) \/ TotpOff(r, u)
    BY <1>4, <2>1, <2>3 DEF TotpSetup, TotpConfirm, TotpDisable
  <2> QED
    BY <1>2, <1>3, <2>2, <2>3, <2>4
<1>5. ASSUME NEW k \in DOMAIN tickets, NEW good \in BOOLEAN, LoginMfa(r, k, good)
      PROVE  TakenUp(r)
  <2>1. PICK u : u = tickets[k].user
    OBVIOUS
  <2>2. PICK n : n = tickets[k].attempts
    OBVIOUS
  <2>3. /\ ~ tickets[k].used /\ Use(k) \in Calm(Known, Fresh) /\ Sign(u, TRUE) \in Calm(Known, Fresh)
        /\ k \in Nat /\ n \in Nat
    BY <1>5, <2>1, <2>2, QuietActs DEF LoginMfa, Live
  <2>4. Handle(r, {k}, <<Use(k), Sign(u, TRUE)>>) \/ Handle(r, {}, Counted(k, n))
    BY <1>5, <2>1, <2>2 DEF LoginMfa
  <2>5. CASE Handle(r, {k}, <<Use(k), Sign(u, TRUE)>>)
    BY <2>3, <2>5, ShortTaken
  <2>6. CASE Handle(r, {}, Counted(k, n))
    <3>1. Counted(k, n) \in Quiet
      BY <1>1, <2>3, CountedCalm DEF Quiet
    <3> QED
      BY <2>6, <3>1, QuietTaken
  <2> QED
    BY <2>4, <2>5, <2>6
<1>6. ASSUME NEW k \in DOMAIN tickets, NEW c \in Codes, LoginRecovery(r, k, c)
      PROVE  TakenUp(r)
  <2>1. PICK n : n = tickets[k].attempts
    OBVIOUS
  <2>2. PICK s : s = Match(k, c, n)
    OBVIOUS
  <2>3. ~ tickets[k].used /\ Handle(r, {k}, <<Await, s>>) /\ k \in Nat /\ n \in Nat
    BY <1>6, <2>1, <2>2, QuietActs DEF LoginRecovery, Live
  <2>4. s \in Acts /\ s.op = "match" /\ s.ticket = k
    BY <2>2, <2>3 DEF Acts, Match
  <2> QED
    BY <2>3, <2>4, ReadTaken
<1>7. ASSUME NEW u \in Users, AdminDisableMfa(r, u) \/ Impersonate(r, u)
      PROVE  TakenUp(r)
  <2>1. u \in Known
    BY <1>7, QuietActs DEF AdminDisableMfa, Impersonate
  <2>2. Await \in Calm(Known, Fresh) /\ Sign(u, TRUE) \in Calm(Known, Fresh)
    BY <2>1, QuietActs
  <2>3. TotpOff(r, u) \/ Handle(r, {}, <<Await, Sign(u, TRUE)>>)
    BY <1>7 DEF AdminDisableMfa, Impersonate
  <2> QED
    BY <1>3, <2>1, <2>2, <2>3, ShortTaken
<1> QED
  BY <1>4, <1>5, <1>6, <1>7, CodesTaken DEF Factor

LEMMA ProviderTaken ==
  ASSUME AccountsInv, NEW r \in Requests, NEW typed, typed \subseteq Passwords
  PROVE  Provider(r, typed) => TakenUp(r)
<1>1. Known \in SUBSET Users
  BY DEF Known
<1>2. ASSUME NEW i \in Identities, NEW e \in Emails, NEW v \in BOOLEAN, Exchange(r, i, e, v)
      PROVE  TakenUp(r)
  <2>1. PICK s : s = Profile(i, e, v)
    OBVIOUS
  <2>2. s \in Acts /\ s.op = "profile" /\ Handle(r, {}, <<Await, s>>)
    BY <1>2, <2>1 DEF Acts, Profile, Exchange
  <2> QED
    BY <2>2, ReadTaken
<1>3. ASSUME NEW k \in DOMAIN tickets, NEW p, MergeConfirm(r, k, p)
      PROVE  TakenUp(r)
  <2>1. PICK u : u = tickets[k].user
    OBVIOUS
  <2>2. PICK i : i = tickets[k].identity
    OBVIOUS
  <2>3. /\ ~ tickets[k].used /\ Use(k) \in Calm(Known, Fresh) /\ Await \in Calm(Known, Fresh)
        /\ Sign(u, TRUE) \in Calm(Known, Fresh) /\ Verified(u) \in Calm(Known, Fresh) /\ u \in Known
    BY <1>3, <2>1, QuietActs DEF MergeConfirm, Live
  <2>4. Link(i, u) \in Calm(Known, Fresh)
    <3>1. tickets[k] \in TicketRows
      BY DEF AccountsInv, TypesInv
    <3>2. i \in Identities \cup {NoOne}
      BY <2>2, <3>1 DEF TicketRows
    <3> QED
      BY <1>1, <2>3, <3>2, CalmActs
  <2>5. Handle(r, {k}, <<Await, Link(i, u)>> \o (IF users[u].verified THEN <<>> ELSE <<Verified(u)>>)
                       \o <<Use(k), Sign(u, TRUE)>>)
    BY <1>3, <2>1, <2>2 DEF MergeConfirm
  <2>6. PICK x : x = <<Await, Link(i, u)>>
    OBVIOUS
  <2>7. PICK v : v = IF users[u].verified THEN <<>> ELSE <<Verified(u)>>
    OBVIOUS
  <2>8. PICK w : w = <<Use(k), Sign(u, TRUE)>>
    OBVIOUS
  <2>9. x \in Quiet /\ v \in Quiet /\ w \in Quiet
    BY <2>3, <2>4, <2>6, <2>7, <2>8, QuietLists
  <2>10. x \o v \in Quiet
    BY <2>9, QuietJoined
  <2>11. PICK y : y = x \o v
    OBVIOUS
  <2>12. \E n \in DOMAIN w : w[n] = Use(k)
    BY <2>8, InLists
  <2>13. y \o w \in Quiet /\ \E n \in DOMAIN (y \o w) : (y \o w)[n] = Use(k)
    <3>1. y \in Quiet
      BY <2>10, <2>11
    <3>2. /\ y \o w \in Quiet
          /\ \A z : (\E n \in DOMAIN w : w[n] = z) => \E n \in DOMAIN (y \o w) : (y \o w)[n] = z
      BY <2>9, <3>1, QuietJoined
    <3> QED
      BY <2>12, <3>2
  <2>14. Handle(r, {k}, y \o w)
    BY <2>5, <2>6, <2>7, <2>8, <2>11
  <2> QED
    BY <2>3, <2>13, <2>14, QuietTaken
<1>4. ASSUME NEW j \in DOMAIN tokens, NEW i \in Identities, Unlink(r, j, i)
      PROVE  TakenUp(r)
  <2>1. Unlinked(i) \in Calm(Known, Fresh)
    BY <1>1, CalmActs
  <2> QED
    BY <1>4, <2>1, ShortTaken DEF Unlink
<1>5. ASSUME NEW j \in DOMAIN tokens, NEW e \in Emails, NEW p \in Passwords, PromoteAccount(r, j, e, p)
      PROVE  TakenUp(r)
  <2>1. PICK u : u = tokens[j].user
    OBVIOUS
  <2>2. u \in Known /\ u \in Users /\ Await \in Calm(Known, Fresh) /\ Sign(u, TRUE) \in Calm(Known, Fresh)
    BY <2>1, QuietActs
  <2>3. PICK a : a = Promoted(u, e, p)
    OBVIOUS
  <2>4. a \in Calm(Known, Fresh)
    BY <1>1, <2>2, <2>3, CalmActs
  <2>5. Handle(r, {}, <<Await, a, Sign(u, TRUE)>>)
    BY <1>5, <2>1, <2>3 DEF PromoteAccount
  <2> QED
    BY <2>2, <2>4, <2>5, ShortTaken
<1> QED
  BY <1>2, <1>3, <1>4, <1>5 DEF Provider

LEMMA AllTaken ==
  ASSUME AccountsInv, NEW r \in Requests, NEW typed, typed \subseteq Passwords,
         \/ SignUp(r, typed) \/ Password(r) \/ Mail(r) \/ Mailed(r) \/ Session(r) \/ Factor(r) \/ Key(r)
         \/ Provider(r, typed)
  PROVE  TakenUp(r)
  BY SignUpTaken, PasswordTaken, MailTaken, SessionTaken, FactorTaken, KeyTaken, ProviderTaken

LEMMA TakenKeeps ==
  ASSUME AccountsInv, NEW r \in Requests, TakenUp(r)
  PROVE  AccountsInv'
<1>1. PICK q, keys :
        /\ q \in Plans /\ Handle(r, keys, q) /\ Lets(keys, q)
        /\ Sound(q, Known, Fresh, DOMAIN tickets)
        /\ \A t \in Requests : Apart(q, todo[t]) /\ Apart(todo[t], q)
  BY DEF TakenUp
<1>2. \A x \in keys : x \in DOMAIN tickets \cup Codes /\ Admits(q, x, Over)
  BY <1>1 DEF Lets, Admits
<1> QED
  BY <1>1, <1>2, HandleKeeps

-----------------------------------------------------------------------------
(* The other steps                                                         *)

(* Lists may only lose what needs nothing else.                            *)
LEMMA ContinueKeeps ==
  ASSUME AccountsInv, NEW r \in Requests, Continue(r)
  PROVE  AccountsInv'
<1>1. TypesInv /\ KnownInv /\ EmailUnique /\ ListsInv
  BY DEF AccountsInv
<1>2. PICK rest : rest = Tail(todo[r])
  OBVIOUS
<1>3. /\ todo[r] # <<>> /\ Head(todo[r]).op = "await" /\ todo' = [todo EXCEPT ![r] = rest]
      /\ accepted' = [accepted EXCEPT ![r] = IF Len(todo[r]) = 1 THEN {} ELSE accepted[r]]
      /\ UNCHANGED <<users, links, tickets, codes, tokens, revoked, now, spent>>
  BY <1>2 DEF Continue, Resume, Next1, Leaves, accountTables
<1>4. Known' = Known /\ Fresh' = Fresh /\ Over' = Over /\ DOMAIN tickets' = DOMAIN tickets
  BY <1>3 DEF Known, Fresh, Over
<1>5. KnownInv' /\ EmailUnique'
  BY <1>1, <1>3, <1>4 DEF KnownInv, EmailUnique, Exists
<1>6. PICK q : q = todo[r]
  OBVIOUS
<1>7. q \in Plans /\ q # <<>> /\ q[1].op = "await" /\ Sound(q, Known, Fresh, DOMAIN tickets) /\ 1 \in DOMAIN q
  BY <1>1, <1>3, <1>6, HeadIs DEF ListsInv
<1>8. /\ rest \in Plans /\ DOMAIN q = 1 .. Len(q) /\ Len(q) \in Nat
      /\ \A n \in DOMAIN rest : n + 1 \in DOMAIN q /\ rest[n] = q[n + 1]
      /\ \A n \in DOMAIN q : n # 1 => n - 1 \in DOMAIN rest /\ rest[n - 1] = q[n]
  BY <1>2, <1>6, <1>7, TailIs DEF Plans
<1>9. Sound(rest, Known, Fresh, DOMAIN tickets)
  <2>1. /\ \A n \in DOMAIN q : q[n].op = "insert" => q[n].user \notin Known
        /\ \A n \in DOMAIN q : q[n].op = "mint" => q[n].code \in Fresh
    BY <1>7 DEF Sound
  <2> QED
    BY <1>2, <1>6, <1>7, <2>1, SoundTail
<1>10. ASSUME NEW t \in Requests \ {r}
       PROVE  Apart(rest, todo[t]) /\ Apart(todo[t], rest)
  <2>1. Apart(q, todo[t])
    BY <1>1, <1>6 DEF ListsInv
  <2>2. Apart(rest, todo[t])
    BY <1>2, <1>6, <1>7, <2>1, ApartTail
  <2> QED
    BY <2>2, ApartBoth
<1>11. TypesInv'
  BY <1>1, <1>3, <1>4, <1>8 DEF TypesInv
<1>12. todo'[r] = rest /\ \A t \in Requests \ {r} : todo'[t] = todo[t]
  BY <1>1, <1>3 DEF TypesInv
<1>13. Cardinality(Carriers') <= Cardinality(Users \ Known)
  <2>1. Carriers' \subseteq Carriers
    BY <1>6, <1>8, <1>12 DEF Carriers
  <2>2. /\ IsFiniteSet(Carriers) /\ Cardinality(Carriers) \in Nat /\ Cardinality(Users \ Known) \in Nat
        /\ Cardinality(Carriers) <= Cardinality(Users \ Known)
    BY <1>1, CarriersFinite DEF ListsInv
  <2>3. Cardinality(Carriers') <= Cardinality(Carriers) /\ Cardinality(Carriers') \in Nat
    BY <2>1, <2>2, FS_Subset, FS_CardinalityType
  <2> QED
    BY <2>2, <2>3
<1>14. ListsInv'
  <2>1. PICK B : B = Known
    OBVIOUS
  <2>2. PICK F : F = Fresh
    OBVIOUS
  <2>3. PICK K : K = DOMAIN tickets
    OBVIOUS
  <2>4. PICK G : G = Over
    OBVIOUS
  <2>5. B = Known' /\ F = Fresh' /\ K = DOMAIN tickets' /\ G = Over'
    BY <1>4, <2>1, <2>2, <2>3, <2>4
  <2>6. \A t \in Requests \ {r} : \A n \in DOMAIN todo[t] :
           /\ todo[t][n].op = "insert" => todo[t][n].user \notin B
           /\ todo[t][n].op = "mint" => todo[t][n].code \in F
    BY <1>1, <2>1, <2>2 DEF ListsInv, Sound
  <2>7. /\ accepted'[r] \subseteq accepted[r]
        /\ \A t \in Requests \ {r} : accepted'[t] = accepted[t]
    BY <1>1, <1>3 DEF TypesInv
  <2>8. ASSUME NEW x \in accepted'[r]
        PROVE  x \in K \cup Codes /\ Admits(rest, x, G)
    <3>1. x \in DOMAIN tickets \cup Codes /\ Admits(q, x, Over)
      BY <1>1, <1>6, <2>7, <2>8 DEF ListsInv
    <3>2. \A n \in DOMAIN q : Spends(q[n], x) => n # 1
      BY <1>7 DEF Spends
    <3> QED
      BY <1>8, <2>3, <2>4, <3>1, <3>2 DEF Admits
  <2>9. /\ Sound(rest, B, F, K) /\ Cardinality(Carriers') <= Cardinality(Users \ B)
        /\ Known \subseteq B /\ F \subseteq Fresh /\ DOMAIN tickets \subseteq K /\ Over \subseteq G
    BY <1>9, <1>13, <2>1, <2>2, <2>3, <2>4
  <2>10. \A t \in Requests \ {r} : Apart(rest, todo[t]) /\ Apart(todo[t], rest)
    BY <1>10
  <2>11. \A x \in accepted'[r] : x \in K \cup Codes /\ Admits(rest, x, G)
    BY <2>8
  <2> QED
    BY <1>3, <2>5, <2>6, <2>7, <2>9, <2>10, <2>11, ListsKept, ZenonT(30)
<1> QED
  BY <1>5, <1>11, <1>14 DEF AccountsInv

LEMMA CrashKeeps ==
  ASSUME AccountsInv, NEW p \in Procs, AccountsCrash(p)
  PROVE  AccountsInv'
<1>1. TypesInv /\ KnownInv /\ EmailUnique /\ ListsInv
  BY DEF AccountsInv
<1>2. /\ todo' = [r \in Requests |-> IF Home[r] = p THEN <<>> ELSE todo[r]]
      /\ accepted' = [r \in Requests |-> IF Home[r] = p THEN {} ELSE accepted[r]]
      /\ UNCHANGED <<users, links, tickets, codes, tokens, revoked, now, spent>>
  BY DEF AccountsCrash, CrashLoop, accountTables
<1>3. Known' = Known /\ Fresh' = Fresh /\ Over' = Over /\ DOMAIN tickets' = DOMAIN tickets
  BY <1>2 DEF Known, Fresh, Over
<1>4. KnownInv' /\ EmailUnique'
  BY <1>1, <1>2, <1>3 DEF KnownInv, EmailUnique, Exists
<1>5. \A r \in Requests : /\ todo'[r] = todo[r] \/ todo'[r] = <<>>
                          /\ accepted'[r] = {} \/ (todo'[r] = todo[r] /\ accepted'[r] = accepted[r])
  BY <1>2
<1>6. TypesInv'
  <2>1. <<>> \in Plans
    BY DEF Plans
  <2> QED
    BY <1>1, <1>2, <1>3, <2>1 DEF TypesInv
<1>7. DOMAIN <<>> = {}
  OBVIOUS
<1>8. Cardinality(Carriers') <= Cardinality(Users \ Known)
  <2>1. Carriers' \subseteq Carriers
    BY <1>5, <1>7 DEF Carriers
  <2>2. /\ IsFiniteSet(Carriers) /\ Cardinality(Carriers) \in Nat /\ Cardinality(Users \ Known) \in Nat
        /\ Cardinality(Carriers) <= Cardinality(Users \ Known)
    BY <1>1, CarriersFinite DEF ListsInv
  <2>3. Cardinality(Carriers') <= Cardinality(Carriers) /\ Cardinality(Carriers') \in Nat
    BY <2>1, <2>2, FS_Subset, FS_CardinalityType
  <2> QED
    BY <2>2, <2>3
<1>9. ListsInv'
  <2>1. \A B, F, K : Sound(<<>>, B, F, K)
    BY <1>7 DEF Sound
  <2>2. \A q : Apart(q, <<>>) /\ Apart(<<>>, q)
    BY <1>7 DEF Apart
  <2>3. \A r \in Requests : Sound(todo'[r], Known, Fresh, DOMAIN tickets)
    BY <1>1, <1>5, <2>1 DEF ListsInv
  <2>4. \A r, s \in Requests : r # s => Apart(todo'[r], todo'[s])
    BY <1>1, <1>5, <2>2 DEF ListsInv
  <2>5. \A r \in Requests : \A x \in accepted'[r] : x \in DOMAIN tickets \cup Codes /\ Admits(todo'[r], x, Over)
    BY <1>1, <1>5 DEF ListsInv
  <2> QED
    BY <1>3, <1>8, <2>3, <2>4, <2>5 DEF ListsInv
<1> QED
  BY <1>4, <1>6, <1>9 DEF AccountsInv

LEMMA DeleteKeeps ==
  ASSUME AccountsInv, NEW u \in Users, DeleteUser(u)
  PROVE  AccountsInv' /\ users' \in [Users -> UserRows] /\ \A v \in Users : v # u => users'[v] = users[v]
<1>1. TypesInv /\ KnownInv /\ EmailUnique /\ ListsInv
  BY DEF AccountsInv
<1>2. /\ users' = [users EXCEPT ![u].in = "gone"] /\ users[u].in = "yes"
      /\ UNCHANGED <<todo, links, tickets, codes, tokens, revoked, now, spent, accepted>>
  BY DEF DeleteUser, loopVars, Exists
<1>3. PICK v : v = [users[u] EXCEPT !.in = "gone"]
  OBVIOUS
<1>4. v \in UserRows /\ v.in = "gone"
  <2>1. users[u] \in UserRows
    BY <1>1 DEF TypesInv
  <2>2. v \in UserRows
    BY <1>3, <2>1, Zenon DEF UserRows
  <2>3. v.in = "gone"
    BY <1>3, <2>1 DEF UserRows
  <2> QED
    BY <2>2, <2>3
<1>5. users' = [users EXCEPT ![u] = v] /\ users \in [Users -> UserRows]
  BY <1>1, <1>2, <1>3 DEF TypesInv
<1>6. /\ users' \in [Users -> UserRows] /\ \A x \in Users : x # u => users'[x] = users[x]
      /\ users'[u].in = "gone"
  BY <1>4, <1>5
<1>7. Known' = Known
  BY <1>2, <1>6 DEF Known
<1>8. Fresh' = Fresh /\ Over' = Over /\ DOMAIN tickets' = DOMAIN tickets
  BY <1>2 DEF Fresh, Over
<1>9. KnownInv'
  BY <1>1, <1>2, <1>7 DEF KnownInv
<1>10. EmailUnique'
  BY <1>1, <1>6 DEF EmailUnique, Exists
<1>11. TypesInv'
  BY <1>1, <1>2, <1>6, <1>8 DEF TypesInv
<1>12. ListsInv'
  BY <1>1, <1>2, <1>7, <1>8 DEF ListsInv, Carriers
<1> QED
  BY <1>6, <1>9, <1>10, <1>11, <1>12 DEF AccountsInv

LEMMA StillKeeps ==
  ASSUME AccountsInv, UNCHANGED <<accountTables, accepted, spent, todo>>, now' \in Nat
  PROVE  AccountsInv'
<1>1. UNCHANGED <<users, links, tickets, codes, tokens, revoked, accepted, spent, todo>>
  BY DEF accountTables
<1>2. Known' = Known /\ Fresh' = Fresh /\ Over' = Over
  BY <1>1 DEF Known, Fresh, Over
<1>3. KnownInv' /\ EmailUnique' /\ TypesInv'
  BY <1>1, <1>2 DEF AccountsInv, KnownInv, EmailUnique, Exists, TypesInv
<1>4. ListsInv'
  BY <1>1, <1>2 DEF AccountsInv, ListsInv, Carriers
<1> QED
  BY <1>3, <1>4 DEF AccountsInv

LEMMA AccountsStart == AccountsInit => AccountsInv
<1> SUFFICES ASSUME AccountsInit PROVE AccountsInv
  OBVIOUS
<1>1. /\ todo = [r \in Requests |-> <<>>] /\ now = 0 /\ tickets = <<>> /\ tokens = <<>> /\ revoked = {}
      /\ links = [i \in Identities |-> NoOne] /\ spent = {}
      /\ codes = [c \in Codes |-> [user |-> NoOne, row |-> "new", lookup |-> FALSE]]
      /\ accepted = [r \in Requests |-> {}]
  BY DEF AccountsInit, LoopInit
<1>2. users \in [Users -> UserRows]
  <2>1. \A e \in Emails \cup {NoOne}, p \in Passwords \cup {NoOne} :
          User("no", e, p, FALSE, FALSE) \in UserRows /\ User("yes", e, p, FALSE, FALSE) \in UserRows
    BY DEF User, UserRows
  <2>2. \A u \in Users : users[u] \in UserRows
    <3> SUFFICES ASSUME NEW u \in Users PROVE users[u] \in UserRows
      OBVIOUS
    <3>1. PICK some : some = {User("yes", x[1], x[2], FALSE, FALSE) : x \in Emails \X Passwords}
      OBVIOUS
    <3>2. users \in [Users -> {User("no", NoOne, NoOne, FALSE, FALSE)} \cup some]
      BY <3>1, Zenon DEF AccountsInit
    <3>3. users[u] = User("no", NoOne, NoOne, FALSE, FALSE) \/ users[u] \in some
      BY <3>2
    <3>4. \A y \in some : \E e \in Emails, p \in Passwords : y = User("yes", e, p, FALSE, FALSE)
      <4> TAKE y \in some
      <4>1. PICK x \in Emails \X Passwords : y = User("yes", x[1], x[2], FALSE, FALSE)
        BY <3>1, Zenon
      <4>2. x[1] \in Emails /\ x[2] \in Passwords
        OBVIOUS
      <4> QED
        BY <4>1, <4>2
    <3> QED
      BY <2>1, <3>3, <3>4, Zenon
  <2>3. users = [u \in Users |-> users[u]]
    BY DEF AccountsInit
  <2> QED
    BY <2>2, <2>3
<1>3. <<>> \in Plans /\ DOMAIN <<>> = {} /\ <<>> \in Seq(TicketRows) /\ <<>> \in Seq(TokenRows)
  BY DEF Plans
<1>4. TypesInv
  <2>1. codes \in [Codes -> CodeRows]
    BY <1>1 DEF CodeRows
  <2> QED
    BY <1>1, <1>2, <1>3, <2>1 DEF TypesInv
<1>5. KnownInv /\ EmailUnique
  BY <1>1, <1>3 DEF KnownInv, EmailUnique, AccountsInit
<1>6. ListsInv
  <2>1. \A r \in Requests : todo[r] = <<>>
    BY <1>1
  <2>2. Carriers = {}
    BY <1>3, <2>1 DEF Carriers
  <2>3. Cardinality(Carriers) = 0 /\ Cardinality(Users \ Known) \in Nat
    BY <1>4, <2>2, CarriersFinite, FS_EmptySet
  <2>4. \A r \in Requests : accepted[r] = {}
    BY <1>1
  <2> QED
    BY <1>3, <2>1, <2>3, <2>4 DEF ListsInv, Sound, Apart
<1> QED
  BY <1>4, <1>5, <1>6 DEF AccountsInv

LEMMA AccountsStep == AccountsInv /\ [AccountsNext]_accountVars => AccountsInv'
<1> SUFFICES ASSUME AccountsInv, [AccountsNext]_accountVars PROVE AccountsInv'
  OBVIOUS
<1>1. CASE Running
  BY <1>1, StatementKeeps, ContinueKeeps DEF Running
<1>2. CASE AccountsTick
  <2>1. now \in Nat
    BY DEF AccountsInv, TypesInv
  <2>2. now' \in Nat /\ UNCHANGED <<accountTables, accepted, spent, todo>>
    BY <1>2, <2>1 DEF AccountsTick, Tick, loopVars
  <2> QED
    BY <2>2, StillKeeps
<1>3. ASSUME NEW p \in Procs, AccountsCrash(p) PROVE AccountsInv'
  BY <1>3, CrashKeeps
<1>4. ASSUME NEW r \in Requests,
             \/ SignUp(r, Passwords) \/ Password(r) \/ Mail(r) \/ Mailed(r) \/ Session(r)
             \/ Factor(r) \/ Key(r) \/ Provider(r, Passwords)
      PROVE  AccountsInv'
  BY <1>4, AllTaken, TakenKeeps
<1>5. ASSUME NEW u \in Users, DeleteUser(u) PROVE AccountsInv'
  BY <1>5, DeleteKeeps
<1>6. CASE UNCHANGED accountVars
  <2>1. now \in Nat
    BY DEF AccountsInv, TypesInv
  <2>2. now' \in Nat /\ UNCHANGED <<accountTables, accepted, spent, todo>>
    BY <1>6, <2>1 DEF accountVars, clockVars, loopVars
  <2> QED
    BY <2>2, StillKeeps
<1> QED
  BY <1>1, <1>2, <1>3, <1>4, <1>5, <1>6 DEF AccountsNext

-----------------------------------------------------------------------------
(* Nothing revives                                                         *)

(* What lets a request in was not used up before.                          *)
LEMMA UnusedLets ==
  ASSUME AccountsInv, NEW x,
         \/ x \in DOMAIN tickets /\ ~ tickets[x].used
         \/ x \in Codes /\ codes[x].row = "live"
  PROVE  x \notin spent
<1>1. DOMAIN tickets \subseteq Nat /\ Codes \cap Nat = {} /\ spent \subseteq Over
  BY AccountsAssumption DEF AccountsInv, TypesInv
<1>2. x \notin Over
  BY <1>1 DEF Over
<1> QED
  BY <1>1, <1>2

LEMMA ReplayStep ==
  AccountsInv /\ [AccountsNext]_accountVars =>
    [\A r \in Requests : (accepted'[r] \ accepted[r]) \cap spent = {}]_accountVars
<1> SUFFICES ASSUME AccountsInv, [AccountsNext]_accountVars, ~ UNCHANGED accountVars
             PROVE  \A r \in Requests : (accepted'[r] \ accepted[r]) \cap spent = {}
  BY Zenon
<1> DEFINE Grows == \A r \in Requests : \A x \in accepted'[r] : x \in accepted[r] \/ x \notin spent
<1>1. SUFFICES Grows
  OBVIOUS
<1>2. accepted \in [Requests -> SUBSET (Nat \cup Codes)]
  BY DEF AccountsInv, TypesInv
<1>3. ASSUME NEW r \in Requests, Statement(r) PROVE Grows
  <2>1. PICK s, rest, keys :
          /\ s \in Acts
          /\ keys = IF Refused(s) \/ (s.op = "match" /\ ~ Usable(s.code, tickets[s.ticket].user)) THEN {}
                    ELSE accepted[r] \cup (IF s.op = "match" THEN {s.code} ELSE {})
          /\ accepted' = [accepted EXCEPT ![r] = IF rest = <<>> THEN {} ELSE keys]
    <3>1. PICK s : s = Head(todo[r])
      OBVIOUS
    <3>2. PICK rest : rest = IF Refused(s) THEN <<>> ELSE Then(s, Tail(todo[r]))
      OBVIOUS
    <3>3. PICK keys : keys = IF Refused(s) \/ (s.op = "match" /\ ~ Usable(s.code, tickets[s.ticket].user)) THEN {}
                             ELSE accepted[r] \cup (IF s.op = "match" THEN {s.code} ELSE {})
      OBVIOUS
    <3>4. todo[r] # <<>> /\ s.op # "await" /\ accepted' = [accepted EXCEPT ![r] = IF rest = <<>> THEN {} ELSE keys]
      BY <1>3, <3>1, <3>2, <3>3 DEF Statement
    <3>5. s \in Acts
      BY <3>1, <3>4, HeadIs DEF AccountsInv, Await
    <3> QED
      BY <3>3, <3>4, <3>5
  <2>2. ASSUME NEW x \in keys PROVE x \in accepted[r] \/ x \notin spent
    <3>1. CASE x \in accepted[r]
      BY <3>1
    <3>2. CASE x \notin accepted[r]
      <4>1. s.op = "match" /\ Usable(s.code, tickets[s.ticket].user) /\ x = s.code
        BY <2>1, <2>2, <3>2
      <4>2. x \in Codes /\ codes[x].row = "live"
        BY <2>1, <4>1, ActsAre DEF Usable
      <4> QED
        BY <4>2, UnusedLets
    <3> QED
      BY <3>1, <3>2
  <2> QED
    BY <1>2, <2>1, <2>2
<1>4. ASSUME NEW r \in Requests, Continue(r) PROVE Grows
  BY <1>2, <1>4 DEF Continue
<1>5. ASSUME NEW p \in Procs, AccountsCrash(p) PROVE Grows
  BY <1>2, <1>5 DEF AccountsCrash
<1>6. ASSUME NEW r \in Requests,
             \/ SignUp(r, Passwords) \/ Password(r) \/ Mail(r) \/ Mailed(r) \/ Session(r)
             \/ Factor(r) \/ Key(r) \/ Provider(r, Passwords)
      PROVE  Grows
  <2>1. TakenUp(r)
    BY <1>6, AllTaken
  <2>2. PICK q, keys : q \in Plans /\ Handle(r, keys, q) /\ Lets(keys, q)
    BY <2>1 DEF TakenUp
  <2>3. accepted' = [accepted EXCEPT ![r] = keys]
    BY <2>2 DEF Handle
  <2>4. \A x \in keys : x \notin spent
    BY <2>2, UnusedLets DEF Lets
  <2> QED
    BY <1>2, <2>3, <2>4
<1>7. ASSUME UNCHANGED accepted PROVE Grows
  BY <1>7
<1>8. CASE AccountsTick
  BY <1>7, <1>8 DEF AccountsTick
<1>9. ASSUME NEW u \in Users, DeleteUser(u) PROVE Grows
  BY <1>7, <1>9 DEF DeleteUser
<1> HIDE DEF Grows
<1> QED
  BY <1>3, <1>4, <1>5, <1>6, <1>8, <1>9 DEF AccountsNext, Running

(* Tokens, logouts and the clock only grow, and no account that stands     *)
(* came back or forgot a reset, but for one that ends late.                *)
Onward ==
  /\ DOMAIN tokens \subseteq DOMAIN tokens' /\ \A j \in DOMAIN tokens : tokens'[j] = tokens[j]
  /\ revoked \subseteq revoked' /\ now <= now' /\ now' \in Nat
  /\ \A u \in Known : /\ users'[u].in = "yes" => users[u].in = "yes"
                      /\ users'[u].resetAt >= users[u].resetAt \/ LateReset(u)
                      /\ users'[u].resetAt \in Nat

LEMMA OnwardStays ==
  ASSUME AccountsInv, UNCHANGED <<users, tokens, revoked>>, now' \in Nat, now <= now'
  PROVE  Onward
<1>1. \A u \in Users : users[u].resetAt \in Nat
  BY DEF AccountsInv, TypesInv, UserRows
<1> QED
  BY <1>1 DEF Onward, Known

LEMMA StatementOnward ==
  ASSUME AccountsInv, NEW r \in Requests, Statement(r)
  PROVE  Onward
<1>1. TypesInv /\ ListsInv /\ now \in Nat /\ users \in [Users -> UserRows]
  BY DEF AccountsInv, TypesInv
<1>2. PICK s : s = Head(todo[r])
  OBVIOUS
<1>3. todo[r] # <<>> /\ s.op # "await" /\ now' = now
  BY <1>2 DEF Statement
<1>4. s \in Acts /\ todo[r] \in Plans /\ s = todo[r][1] /\ 1 \in DOMAIN todo[r]
  BY <1>1, <1>2, <1>3, HeadIs DEF Await
<1>5. CASE Refused(s)
  <2>1. UNCHANGED <<users, tokens, revoked>>
    BY <1>2, <1>5 DEF Statement, accountTables
  <2> QED
    BY <1>1, <1>3, <2>1, OnwardStays
<1>6. CASE ~ Refused(s)
  <2>1. users' = UsersAfter(s) /\ tokens' = TokensAfter(s) /\ revoked' = RevokedAfter(s)
    BY <1>2, <1>6 DEF Statement
  <2>2. /\ DOMAIN tokens \subseteq DOMAIN tokens' /\ \A j \in DOMAIN tokens : tokens'[j] = tokens[j]
        /\ revoked \subseteq revoked'
    BY <1>1, <1>4, <2>1, OthersChange
  <2>3. PICK next : next = users'
    OBVIOUS
  <2>4. /\ next \in [Users -> UserRows]
        /\ \A u \in Users :
              /\ s.op # "insert" \/ s.user # u => next[u].in = users[u].in
              /\ s.op = "reset" /\ s.user = u => next[u].resetAt = s.at
              /\ s.op \notin {"insert", "reset"} \/ s.user # u => next[u].resetAt = users[u].resetAt
    BY <1>1, <1>4, <2>1, <2>3, UsersChange
  <2>5. s.op = "insert" => s.user \notin Known
    BY <1>1, <1>4 DEF ListsInv, Sound
  <2>6. \A u \in Users : users[u].resetAt \in Nat /\ next[u].resetAt \in Nat
    BY <1>1, <2>4 DEF UserRows
  <2>7. s.op = "reset" => s.at \in Nat /\ todo'[r] # todo[r]
    <3>1. SUFFICES ASSUME s.op = "reset" PROVE s.at \in Nat /\ todo'[r] # todo[r]
      OBVIOUS
    <3>2. todo' = [todo EXCEPT ![r] = Tail(todo[r])]
      BY <1>2, <1>6, <3>1 DEF Statement, Leaves, Then
    <3>3. Len(Tail(todo[r])) = Len(todo[r]) - 1 /\ Len(todo[r]) \in Nat
      BY <1>3, <1>4, TailIs DEF Plans
    <3>4. s.at \in Nat
      BY <1>4, <3>1, ActsAre
    <3>5. todo'[r] = Tail(todo[r])
      BY <1>1, <3>2 DEF TypesInv
    <3>6. \A a, b : Len(a) = Len(b) - 1 /\ Len(b) \in Nat => a # b
      OBVIOUS
    <3>7. Tail(todo[r]) # todo[r]
      BY <3>3, <3>6, Zenon
    <3> QED
      BY <3>4, <3>5, <3>7
  <2>8. ASSUME NEW u \in Known
        PROVE  /\ next[u].in = "yes" => users[u].in = "yes"
               /\ next[u].resetAt >= users[u].resetAt \/ LateReset(u)
               /\ next[u].resetAt \in Nat
    <3>1. u \in Users
      BY DEF Known
    <3>2. next[u].in = users[u].in
      BY <2>4, <2>5, <3>1
    <3>3. CASE s.op = "reset" /\ s.user = u
      <4>1. next[u].resetAt = s.at
        BY <2>4, <3>1, <3>3
      <4>2. s.at < users[u].resetAt => LateReset(u)
        BY <1>2, <1>3, <2>7, <3>3 DEF LateReset
      <4> QED
        BY <2>6, <2>7, <3>1, <3>2, <3>3, <4>1, <4>2
    <3>4. CASE ~ (s.op = "reset" /\ s.user = u)
      <4>1. next[u].resetAt = users[u].resetAt
        BY <2>4, <2>5, <3>1, <3>4
      <4> QED
        BY <2>6, <3>1, <3>2, <4>1
    <3> QED
      BY <3>3, <3>4
  <2> QED
    BY <1>1, <1>3, <2>2, <2>3, <2>8 DEF Onward
<1> QED
  BY <1>5, <1>6

LEMMA OnwardStep ==
  ASSUME AccountsInv, [AccountsNext]_accountVars
  PROVE  Onward
<1>1. now \in Nat /\ users \in [Users -> UserRows]
  BY DEF AccountsInv, TypesInv
<1>2. ASSUME UNCHANGED accountTables, now' = now PROVE Onward
  BY <1>1, <1>2, OnwardStays DEF accountTables
<1>3. ASSUME NEW r \in Requests, Statement(r) \/ Continue(r) PROVE Onward
  BY <1>2, <1>3, StatementOnward DEF Continue
<1>4. CASE AccountsTick
  BY <1>1, <1>4, OnwardStays DEF AccountsTick, Tick, accountTables
<1>5. ASSUME NEW p \in Procs, AccountsCrash(p) PROVE Onward
  BY <1>2, <1>5 DEF AccountsCrash, CrashLoop
<1>6. ASSUME NEW r \in Requests,
             \/ SignUp(r, Passwords) \/ Password(r) \/ Mail(r) \/ Mailed(r) \/ Session(r)
             \/ Factor(r) \/ Key(r) \/ Provider(r, Passwords)
      PROVE  Onward
  <2>1. TakenUp(r)
    BY <1>6, AllTaken
  <2> QED
    BY <1>2, <2>1 DEF TakenUp, Handle
<1>7. ASSUME NEW u \in Users, DeleteUser(u) PROVE Onward
  <2>1. users' = [users EXCEPT ![u].in = "gone"] /\ UNCHANGED <<tokens, revoked, now>>
    BY <1>7 DEF DeleteUser
  <2>2. PICK v : v = [users[u] EXCEPT !.in = "gone"]
    OBVIOUS
  <2>3. \A w \in Users : users[w] \in UserRows /\ users[w].resetAt \in Nat
    BY <1>1 DEF UserRows
  <2>4. v.in = "gone" /\ v.resetAt = users[u].resetAt
    BY <2>2, <2>3 DEF UserRows
  <2>5. users' = [users EXCEPT ![u] = v]
    BY <2>1, <2>2
  <2>6. \A w \in Users : /\ users'[w].in = "yes" => users[w].in = "yes"
                         /\ users'[w].resetAt = users[w].resetAt
    BY <1>1, <2>4, <2>5
  <2> QED
    BY <1>1, <2>1, <2>3, <2>6 DEF Onward, Known
<1>8. CASE UNCHANGED accountVars
  BY <1>2, <1>8 DEF accountVars, clockVars
<1> QED
  BY <1>3, <1>4, <1>5, <1>6, <1>7, <1>8 DEF AccountsNext, Running

LEMMA RefusedStep ==
  AccountsInv /\ [AccountsNext]_accountVars =>
    [\A j \in DOMAIN tokens : Valid(j)' => Valid(j) \/ LateReset(tokens[j].user)]_accountVars
<1> SUFFICES ASSUME AccountsInv, [AccountsNext]_accountVars, NEW j \in DOMAIN tokens, Valid(j)',
                    ~ LateReset(tokens[j].user)
             PROVE  Valid(j)
  BY Zenon
<1>1. Onward
  BY OnwardStep
<1>2. now \in Nat /\ users \in [Users -> UserRows] /\ tokens \in Seq(TokenRows) /\ tokens[j].user \in Known
  BY DEF AccountsInv, TypesInv, KnownInv
<1>3. /\ j \in DOMAIN tokens' /\ now' < tokens'[j].exp /\ j \notin revoked' /\ tokens'[j].collection
      /\ tokens'[j].user \in Users /\ users'[tokens'[j].user].in = "yes"
      /\ users'[tokens'[j].user].resetAt <= tokens'[j].iat
  BY DEF Valid, Signed, Exists
<1>4. tokens'[j] = tokens[j] /\ revoked \subseteq revoked' /\ now <= now' /\ now' \in Nat
  BY <1>1 DEF Onward
<1>5. PICK u : u = tokens[j].user
  OBVIOUS
<1>6. /\ u \in Known /\ u \in Users /\ users[u].resetAt \in Nat
      /\ tokens[j].exp \in Nat /\ tokens[j].iat \in Nat
  <2>1. tokens[j] \in TokenRows
    BY <1>2
  <2>2. tokens[j].user \in Users /\ tokens[j].exp \in Nat /\ tokens[j].iat \in Nat
    BY <2>1 DEF TokenRows
  <2>3. users[u].resetAt \in Nat
    BY <1>2, <1>5, <2>2 DEF UserRows
  <2> QED
    BY <1>2, <1>5, <2>2, <2>3
<1>7. users[u].in = "yes" /\ users'[u].resetAt >= users[u].resetAt /\ users'[u].resetAt \in Nat
  BY <1>1, <1>3, <1>4, <1>5, <1>6 DEF Onward
<1>8. now < tokens[j].exp
  BY <1>2, <1>3, <1>4, <1>6
<1>9. users[u].resetAt <= tokens[j].iat
  BY <1>3, <1>4, <1>5, <1>6, <1>7
<1> QED
  BY <1>3, <1>4, <1>5, <1>6, <1>7, <1>8, <1>9 DEF Valid, Signed, Exists

(* A ticket or a recovery code that let a request in is used up by that    *)
(* request, and lets nobody in when it has finished; a token that is       *)
(* refused stays refused, but for a reset that ends late.                  *)
THEOREM NothingEverRevives == AccountsSpec => NothingRevives
<1>1. AccountsSpec => []AccountsInv
  BY AccountsStart, AccountsStep, PTL DEF AccountsSpec
<1>2. AccountsSpec => NoReplay
  BY <1>1, ReplayStep, PTL DEF AccountsSpec, NoReplay
<1>3. AccountsSpec => RefusedStays
  BY <1>1, RefusedStep, PTL DEF AccountsSpec, RefusedStays
<1> QED
  BY <1>2, <1>3 DEF NothingRevives

(* No two accounts share an address, however registrations, promotions and *)
(* sign-ins with a provider overlap, in any number of processes.           *)
THEOREM EmailsStayUnique == AccountsSpec => []EmailUnique
<1>1. AccountsInv => EmailUnique
  BY DEF AccountsInv
<1> QED
  BY <1>1, AccountsStart, AccountsStep, PTL DEF AccountsSpec

-----------------------------------------------------------------------------
(* The families of MCAccess together                                       *)

(* The families of admins but the setups answer none, and setups delete    *)
(* nobody.                                                                 *)
Never == IF family = "setup" THEN {"delete", "drop"} ELSE {"only"}
Without(q, ops) == \A n \in DOMAIN q : q[n].op \notin ops
FamilyInv ==
  /\ family \in OfUsers \cup OfAdmins
  /\ family \in OfUsers => AccountsInv /\ EntryGuarded
  /\ family \in OfAdmins => /\ EmailUnique /\ LockInv /\ SetupInv
                            /\ \A r \in Requests : Without(todo[r], Never)
                            /\ family # "setup" => setups = {}

LEMMA ThensWithout ==
  ASSUME NEW S, NEW q \in Seq(S), q # <<>>, NEW s, s = Head(q), NEW rest, rest = AdminThen(s, Tail(q)),
         NEW D, D = {"delete", "drop"} \/ D = {"only"}, Without(q, D)
  PROVE  Without(rest, D)
<1>0. s.op \notin D /\ Without(<<>>, D)
  BY TailIs DEF Without
<1>1. \A x : x.op \notin D => Without(<<x>>, D) /\ Without(<<Await, x>>, D)
  BY DEF Without, Await
<1>2. CASE s.op = "only"
  <2>1. rest = <<>> \/ rest = <<TakeBack(s.admin)>>
    BY <1>2 DEF AdminThen
  <2>2. TakeBack(s.admin).op = "back"
    BY DEF TakeBack
  <2> QED
    BY <1>0, <1>1, <2>1, <2>2
<1>3. CASE s.op = "stamp"
  <2>1. rest = <<Await, Record(s.admin, now)>>
    BY <1>3 DEF AdminThen
  <2>2. Record(s.admin, now).op = "record"
    BY DEF Record
  <2> QED
    BY <1>1, <2>1, <2>2
<1>4. CASE s.op = "create"
  <2>1. rest = <<>> \/ rest = <<Await, AddAdmin(s.admin, s.role)>>
    BY <1>4 DEF AdminThen
  <2>2. AddAdmin(s.admin, s.role).op = "add"
    BY DEF AddAdmin
  <2> QED
    BY <1>0, <1>1, <2>1, <2>2
<1>5. CASE s.op = "patch"
  <2> DEFINE d == Demote(admins[s.me].role, s.admin, s.role, admins[s.admin].role)
  <2>1. rest \in {<<>>, <<Await>> \o <<d>>, <<>> \o <<d>>}
    BY <1>5 DEF AdminThen
  <2>2. d.op = "demote"
    BY DEF Demote
  <2> HIDE DEF d
  <2>3. rest = <<>> \/ rest = <<Await, d>> \/ rest = <<d>>
    BY <2>1
  <2> QED
    BY <1>0, <1>1, <2>2, <2>3
<1>6. CASE s.op = "demote"
  <2>1. rest = <<>> \/ rest = <<SetRole(s.admin, s.role, s.was)>>
    BY <1>6 DEF AdminThen
  <2>2. SetRole(s.admin, s.role, s.was).op = "role"
    BY DEF SetRole
  <2> QED
    BY <1>0, <1>1, <2>1, <2>2
<1>7. CASE s.op = "delete"
  <2>1. rest = <<>> \/ rest = <<DropAdmin(s.admin)>>
    BY <1>7 DEF AdminThen
  <2>2. DropAdmin(s.admin).op = "drop"
    BY DEF DropAdmin
  <2> QED
    BY <1>0, <1>1, <1>7, <2>1, <2>2
<1>8. CASE s.op \notin {"only", "stamp", "create", "patch", "demote", "delete"}
  <2>1. rest = Tail(q)
    BY <1>8 DEF AdminThen
  <2> QED
    BY <2>1, TailIs DEF Without
<1> QED
  BY <1>2, <1>3, <1>4, <1>5, <1>6, <1>7, <1>8

(* What the families' requests are taken up with.                          *)
LEMMA ArrivesWithout ==
  ASSUME NEW r \in Requests,
         \/ family = "setup" /\ (Setup(r) \/ CommandLine(r, a1))
         \/ family # "setup" /\ (SignIns(r, Admins) \/ Management(r, Roles) \/ Credentials(r))
  PROVE  \E q : todo' = [todo EXCEPT ![r] = q] /\ Without(q, Never)
<1> DEFINE Fine == \E q : todo' = [todo EXCEPT ![r] = q] /\ Without(q, Never)
<1> SUFFICES Fine
  OBVIOUS
<1>1. ASSUME NEW s, s.op \notin Never, AdminHandle(r, <<Await, s>>) PROVE Fine
  <2>1. todo' = [todo EXCEPT ![r] = <<Await, s>>]
    BY <1>1 DEF AdminHandle, Begin, Leaves
  <2>2. Without(<<Await, s>>, Never)
    BY <1>1 DEF Without, Never, Await
  <2> QED
    BY <2>1, <2>2
<1>2. ASSUME NEW s, NEW t, s.op \notin Never, t.op \notin Never, AdminHandle(r, <<Await, s, t>>) PROVE Fine
  <2>1. todo' = [todo EXCEPT ![r] = <<Await, s, t>>]
    BY <1>2 DEF AdminHandle, Begin, Leaves
  <2>2. Without(<<Await, s, t>>, Never)
    BY <1>2 DEF Without, Never, Await
  <2> QED
    BY <2>1, <2>2
<1> HIDE DEF Fine
<1>3. CASE family = "setup"
  <2>1. Never = {"delete", "drop"}
    BY <1>3 DEF Never
  <2>2. \A a : AddAdmin(a, "owner").op = "add" /\ OnlyOne(a).op = "only" /\ BumpReset({a}).op = "bump"
    BY DEF AddAdmin, OnlyOne, BumpReset
  <2>3. CASE Setup(r)
    <3>1. PICK a : AdminHandle(r, <<Await, AddAdmin(a, "owner"), OnlyOne(a)>>)
      BY <2>3 DEF Setup
    <3>2. AddAdmin(a, "owner").op \notin Never /\ OnlyOne(a).op \notin Never
      BY <2>1, <2>2
    <3> QED
      BY <1>2, <3>1, <3>2
  <2>4. CASE CommandLine(r, a1)
    <3>1. \/ AdminHandle(r, <<Await, BumpReset({a1})>>)
          \/ AdminHandle(r, <<Await, AddAdmin(a1, "owner")>>)
      BY <2>4 DEF CommandLine
    <3>2. AddAdmin(a1, "owner").op \notin Never /\ BumpReset({a1}).op \notin Never
      BY <2>1, <2>2
    <3> QED
      BY <1>1, <3>1, <3>2
  <2> QED
    BY <1>3, <2>3, <2>4
<1>4. CASE family # "setup"
  <2>1. Never = {"only"}
    BY <1>4 DEF Never
  <2>2. ASSUME NEW s, s.op # "only", NEW me, Gated(r, me, s) PROVE Fine
    BY <1>1, <2>1, <2>2 DEF Gated
  <2>3. CASE SignIns(r, Admins)
    <3>1. PICK a, good : AdminLogin(r, a, good)
      BY <2>3 DEF SignIns
    <3>2. AdminHandle(r, <<Await, Forgive(a), Stamp(a)>>) \/ AdminHandle(r, <<Await, Fail(a)>>)
      BY <3>1 DEF AdminLogin
    <3>3. Forgive(a).op = "forgive" /\ Stamp(a).op = "stamp" /\ Fail(a).op = "fail"
      BY DEF Forgive, Stamp, Fail
    <3>4. Forgive(a).op \notin Never /\ Stamp(a).op \notin Never /\ Fail(a).op \notin Never
      BY <2>1, <3>3
    <3> QED
      BY <1>1, <1>2, <3>2, <3>4
  <2>4. CASE Management(r, Roles)
    <3>1. PICK me : \/ \E role \in Roles : CreateAdmin(r, me, role)
                    \/ \E a \in Admins : \/ DeleteAdmin(r, me, a)
                                         \/ \E role \in Roles, pw \in BOOLEAN :
                                              PatchAdmin(r, me, a, role, pw)
      BY <2>4 DEF Management
    <3>2. ASSUME NEW role, CreateAdmin(r, me, role) PROVE Fine
      <4>1. PICK a : Gated(r, me, Create(me, a, role))
        BY <3>2 DEF CreateAdmin
      <4> QED
        BY <2>2, <4>1 DEF Create
    <3>3. ASSUME NEW a, DeleteAdmin(r, me, a) PROVE Fine
      BY <2>2, <3>3 DEF DeleteAdmin, Delete
    <3>4. ASSUME NEW a, NEW role, NEW pw, PatchAdmin(r, me, a, role, pw) PROVE Fine
      BY <2>2, <3>4 DEF PatchAdmin, Patch
    <3> QED
      BY <3>1, <3>2, <3>3, <3>4
  <2>5. CASE Credentials(r)
    <3>1. PICK me : \/ \E j \in DOMAIN sessions : RevokeSession(r, me, j)
                    \/ ForceLogoutAll(r, me) \/ MintApiToken(r, me)
      BY <2>5 DEF Credentials
    <3>2. \/ \E j : Gated(r, me, Void(j))
          \/ Gated(r, me, BumpReset(Admins)) \/ Gated(r, me, Stamp(me))
      BY <3>1 DEF RevokeSession, ForceLogoutAll, MintApiToken
    <3>3. \A j : Void(j).op = "void" /\ BumpReset(Admins).op = "bump" /\ Stamp(me).op = "stamp"
      BY DEF Void, BumpReset, Stamp
    <3>4. \A j : Void(j).op # "only" /\ BumpReset(Admins).op # "only" /\ Stamp(me).op # "only"
      BY <3>3
    <3> QED
      BY <2>2, <3>2, <3>4
  <2> QED
    BY <1>4, <2>3, <2>4, <2>5
<1> QED
  BY <1>3, <1>4

(* What one step of the families of admins is.                             *)
LEMMA FamilySteps ==
  ASSUME MCNext, family \in OfAdmins
  PROVE  /\ family' = family /\ UNCHANGED <<accountTables, accepted, spent>>
         /\ \/ \E r \in Requests : AdminStatement(r) \/ AdminContinue(r)
            \/ \E r \in Requests :
                 \/ family = "setup" /\ (Setup(r) \/ CommandLine(r, a1))
                 \/ family # "setup" /\ (SignIns(r, Admins) \/ Management(r, Roles) \/ Credentials(r))
            \/ \E p \in Procs : AdminCrash(p)
            \/ AdminTick
<1>1. r1 \in Requests /\ r2 \in Requests /\ r3 \in Requests /\ a1 \in Admins
  BY AccessAssumption
<1>2. family \notin OfUsers /\ {"editor"} \cup {"owner" : x \in AdminRows \ Owners} \subseteq Roles
  BY DEF OfUsers, OfAdmins, Roles
<1>3. /\ family' = family /\ UNCHANGED <<accountTables, accepted, spent>>
      /\ \/ AdminRunning
         \/ \E r \in {r1, r2} : Admins1(r)
         \/ family = "lockout" /\ SignIns(r3, {a1})
         \/ family = "setup" /\ \E p \in Procs : AdminCrash(p)
         \/ family = "setup" /\ \E r \in {r1, r3} : Setup(r) \/ CommandLine(r, a1)
         \/ family \in {"lockout", "sessions"} /\ AdminTick
  BY <1>2 DEF MCNext
<1>4. ASSUME NEW r, SignIns(r, {a1}) PROVE SignIns(r, Admins)
  BY <1>1, <1>4 DEF SignIns
<1>5. ASSUME NEW r, AdminLogin(r, a1, TRUE) PROVE SignIns(r, Admins)
  BY <1>1, <1>5 DEF SignIns
<1>6. ASSUME NEW r, NEW roles, roles \subseteq Roles, Management(r, roles) PROVE Management(r, Roles)
  BY <1>6 DEF Management
<1>7. ASSUME NEW r \in {r1, r2}, Admins1(r)
      PROVE  family # "setup" /\ (SignIns(r, Admins) \/ Management(r, Roles) \/ Credentials(r))
  BY <1>2, <1>4, <1>5, <1>6, <1>7 DEF Admins1
<1> QED
  BY <1>1, <1>3, <1>4, <1>7 DEF AdminRunning

LEMMA AdminFamiliesStep ==
  ASSUME FamilyInv, MCNext, family \in OfAdmins
  PROVE  FamilyInv'
<1>1. LockInv /\ SetupInv /\ AdminsInv /\ EmailUnique /\ (family # "setup" => setups = {})
  BY DEF FamilyInv, LockInv
<1>2. PICK D : D = Never
  OBVIOUS
<1>3. /\ D = {"delete", "drop"} \/ D = {"only"}
      /\ \A r \in Requests : Without(todo[r], D)
  BY <1>2 DEF FamilyInv, Never
<1>4. family' = family /\ Never' = D /\ EmailUnique'
  BY <1>1, <1>2, FamilySteps DEF Never, EmailUnique, Exists, accountTables
<1>5. [AdminsNext]_adminVars
  BY FamilySteps, AccessAssumption DEF AdminsNext, AdminRunning
<1>6. LockInv' /\ AdminsInv'
  BY <1>1, <1>5, LockStep DEF LockInv
<1>7. todo \in [Requests -> Seq(Steps \cup {Await})]
  BY <1>1 DEF AdminsInv, LoopInv
<1>8. Without(<<>>, D)
  BY DEF Without
<1>9. \A r \in Requests : Without(todo'[r], D)
  <2>1. CASE \E r \in Requests : AdminStatement(r)
    <3>1. PICK r \in Requests : AdminStatement(r)
      BY <2>1
    <3>2. PICK s : s = Head(todo[r])
      OBVIOUS
    <3>3. PICK rest : rest = AdminThen(s, Tail(todo[r]))
      OBVIOUS
    <3>4. todo'[r] = rest /\ \A t \in Requests \ {r} : todo'[t] = todo[t]
      BY <1>1, <3>1, <3>2, <3>3, AdminStatementKeeps
    <3>5. todo[r] # <<>>
      BY <3>1 DEF AdminStatement
    <3>6. Without(rest, D)
      BY <1>3, <1>7, <3>2, <3>3, <3>5, ThensWithout
    <3> QED
      BY <1>3, <3>4, <3>6
  <2>2. CASE \E r \in Requests : AdminContinue(r)
    <3>1. PICK r \in Requests : AdminContinue(r)
      BY <2>2
    <3>2. todo'[r] = Tail(todo[r]) /\ \A s \in Requests \ {r} : todo'[s] = todo[s]
      BY <1>1, <3>1, AdminContinueKeeps
    <3>3. todo[r] # <<>> /\ todo[r] \in Seq(Steps \cup {Await}) /\ Without(todo[r], D)
      BY <1>3, <1>7, <3>1 DEF AdminContinue, Resume, Next1
    <3>4. Without(Tail(todo[r]), D)
      BY <3>3, TailIs DEF Without
    <3> QED
      BY <1>3, <3>2, <3>4
  <2>3. ASSUME NEW r \in Requests,
               \/ family = "setup" /\ (Setup(r) \/ CommandLine(r, a1))
               \/ family # "setup" /\ (SignIns(r, Admins) \/ Management(r, Roles) \/ Credentials(r))
        PROVE  \A t \in Requests : Without(todo'[t], D)
    <3>1. PICK q : todo' = [todo EXCEPT ![r] = q] /\ Without(q, Never)
      BY <2>3, ArrivesWithout
    <3> QED
      BY <1>2, <1>3, <1>7, <3>1
  <2>4. ASSUME NEW p \in Procs, AdminCrash(p) PROVE \A t \in Requests : Without(todo'[t], D)
    <3>1. todo' = [r \in Requests |-> IF Home[r] = p THEN <<>> ELSE todo[r]]
      BY <1>1, <2>4, AdminCrashKeeps
    <3> QED
      BY <1>3, <1>8, <3>1
  <2>5. CASE AdminTick
    <3>1. todo' = todo
      BY <2>5 DEF AdminTick, Tick, loopVars
    <3> QED
      BY <1>3, <3>1
  <2> QED
    BY <2>1, <2>2, <2>3, <2>4, <2>5, FamilySteps
<1>10. SetupInv' /\ (family # "setup" => setups' = {})
  <2>1. CASE family = "setup"
    <3>1. D = {"delete", "drop"}
      BY <1>2, <2>1 DEF Never
    <3>2. \A r \in Requests : todo[r] # <<>> =>
            1 \in DOMAIN todo[r] /\ Head(todo[r]) = todo[r][1]
      BY <1>7, TailIs
    <3>3. Undeleted
      BY <1>3, <3>1, <3>2 DEF Undeleted, Without
    <3> QED
      BY <1>1, <1>5, <2>1, <3>3, SetupStep
  <2>2. CASE family # "setup"
    <3>1. setups' = setups
      <4>1. CASE \E r \in Requests : AdminStatement(r)
        <5>1. PICK r \in Requests : AdminStatement(r)
          BY <4>1
        <5>2. todo[r] # <<>> /\ setups' = SetupsAfter(Head(todo[r]), r)
          BY <5>1 DEF AdminStatement
        <5>3. 1 \in DOMAIN todo[r] /\ Head(todo[r]) = todo[r][1]
          BY <1>7, <5>2, TailIs
        <5>4. D = {"only"}
          BY <1>2, <2>2 DEF Never
        <5>5. Head(todo[r]).op # "only"
          BY <1>3, <5>3, <5>4 DEF Without
        <5> QED
          BY <5>2, <5>5 DEF SetupsAfter
      <4>2. CASE ~ \E r \in Requests : AdminStatement(r)
        BY <2>2, <4>2, FamilySteps DEF AdminContinue, SignIns, AdminLogin, Management, CreateAdmin,
           PatchAdmin, DeleteAdmin, Credentials, RevokeSession, ForceLogoutAll, MintApiToken,
           Gated, AdminHandle, AdminCrash, AdminTick, adminTables
      <4> QED
        BY <4>1, <4>2
    <3> QED
      BY <1>1, <1>6, <2>2, <3>1 DEF SetupInv
  <2> QED
    BY <2>1, <2>2
<1> QED
  BY <1>1, <1>4, <1>6, <1>9, <1>10 DEF FamilyInv, OfUsers, OfAdmins

LEMMA UserFamiliesStep ==
  ASSUME FamilyInv, MCNext, family \in OfUsers
  PROVE  FamilyInv'
<1>1. AccountsInv /\ EntryGuarded
  BY DEF FamilyInv
<1>2. r1 \in Requests /\ r2 \in Requests /\ {w1} \subseteq Passwords
  BY AccessAssumption
<1>3. family \notin OfAdmins
  BY DEF OfUsers, OfAdmins
<1>4. /\ family' = family /\ UNCHANGED adminTables
      /\ \/ Running
         \/ \E p \in Procs : AccountsCrash(p)
         \/ \E r \in {r1, r2} : Users1(r)
         \/ AccountsTick
         \/ \E u \in Users : DeleteUser(u)
  BY <1>3 DEF MCNext
<1>5. ASSUME NEW r \in Requests, Users1(r) PROVE AccountsInv'
  <2>1. \/ SignUp(r, {w1}) \/ Password(r) \/ Mail(r) \/ Mailed(r) \/ Session(r) \/ Factor(r) \/ Key(r)
        \/ Provider(r, {w1})
    BY <1>5 DEF Users1
  <2>2. TakenUp(r)
    BY <1>1, <1>2, <2>1, AllTaken
  <2> QED
    BY <1>1, <2>2, TakenKeeps
<1>6. ASSUME [AccountsNext]_accountVars PROVE AccountsInv'
  BY <1>1, <1>6, AccountsStep
<1>7. AccountsInv'
  BY <1>2, <1>4, <1>5, <1>6 DEF AccountsNext
<1>8. EntryGuarded'
  BY <1>1, <1>4 DEF EntryGuarded, SetupOnce, LockoutBound, adminTables
<1> QED
  BY <1>3, <1>4, <1>7, <1>8 DEF FamilyInv

LEMMA FamiliesStart ==
  ASSUME MCInit
  PROVE  FamilyInv
<1>1. AccountsInv /\ LockInv /\ AdminsInv /\ setups = {} /\ todo = [r \in Requests |-> <<>>]
  BY AccountsStart, LockStart, AdminsStart DEF MCInit, AdminsInit, LoopInit
<1>2. SetupInv
  BY <1>1 DEF SetupInv
<1>3. EntryGuarded /\ EmailUnique
  BY <1>1, <1>2, SetupsOnce DEF EntryGuarded, LockInv, AccountsInv
<1>4. \A r \in Requests : Without(todo[r], Never)
  BY <1>1 DEF Without
<1> QED
  BY <1>1, <1>2, <1>3, <1>4 DEF FamilyInv, MCInit

(* The families together, as they are run: no two accounts share an        *)
(* address, one setup is answered with an account, and the failures of a   *)
(* lockout's window are bounded.                                           *)
THEOREM AccountsAlwaysGuarded == MCSpec => []AccountsGuarded
<1>1. MCInit => FamilyInv
  BY FamiliesStart
<1>2. FamilyInv /\ [MCNext]_<<accountVars, adminVars, family>> => FamilyInv'
  <2> SUFFICES ASSUME FamilyInv, [MCNext]_<<accountVars, adminVars, family>> PROVE FamilyInv'
    OBVIOUS
  <2>1. CASE MCNext
    BY <2>1, AdminFamiliesStep, UserFamiliesStep DEF FamilyInv
  <2>2. CASE UNCHANGED <<accountVars, adminVars, family>>
    <3>1. UNCHANGED accountVars /\ UNCHANGED adminVars /\ family' = family
      BY <2>2
    <3>2. AccountsInv => AccountsInv'
      BY <3>1, AccountsStep
    <3>3. LockInv => LockInv'
      BY <3>1, LockStep
    <3>4. UNCHANGED <<users, todo, setups, admins, failures>>
      BY <3>1 DEF accountVars, accountTables, adminVars, adminTables, loopVars
    <3>5. (EntryGuarded => EntryGuarded') /\ (EmailUnique => EmailUnique')
      BY <3>4 DEF EntryGuarded, SetupOnce, LockoutBound, EmailUnique, Exists
    <3>6. SetupInv => SetupInv'
      BY <3>1, <3>4, AdminsStep DEF SetupInv, Settled, Mentions
    <3>7. Never' = Never /\ \A r \in Requests : Without(todo[r], Never) => Without(todo'[r], Never')
      BY <3>1, <3>4 DEF Never, Without
    <3> QED
      BY <3>1, <3>2, <3>3, <3>4, <3>5, <3>6, <3>7 DEF FamilyInv
  <2> QED
    BY <2>1, <2>2
<1>3. FamilyInv => AccountsGuarded
  BY SetupsOnce DEF FamilyInv, AccountsGuarded, EntryGuarded, LockInv, AccountsInv
<1> QED
  BY <1>1, <1>2, <1>3, PTL DEF MCSpec
=============================================================================
