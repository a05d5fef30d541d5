---------------------------- MODULE OfficeProofs ----------------------------
(***************************************************************************)
(* Proofs about the parts of the office, for any number of handlers, ids,  *)
(* people and edits.                                                       *)
(*                                                                         *)
(* A behaviour of the office is a behaviour of the part it is about: it    *)
(* begins as one and stays with it.  So what a part's own specification    *)
(* keeps, the office keeps while it is about that part.                    *)
(***************************************************************************)
EXTENDS Office, FiniteSetTheorems, SequenceTheorems, WellFoundedInduction, TLAPS

-----------------------------------------------------------------------------
(* Staff accounts. *)
AtStaff == part = "staff"

(* "Two admins demoting each other at the same moment can't both succeed"  *)
(* (users.service 305-306) and "a link can't be used twice"                *)
(* (invitations.service 56), for any number of people and requests.        *)
THEOREM StaffStaysSafe == OfficeSpec => []StaffIsSafe
<1>1. OfficeInit /\ AtStaff => Staff!Init
    BY DEF OfficeInit, AtStaff
<1>2. AtStaff /\ [OfficeNext]_office => AtStaff' /\ [Staff!Next]_(Staff!vars)
    BY DEF OfficeNext, office, Staff!vars, AtStaff
<1>3. ~AtStaff /\ [OfficeNext]_office => ~AtStaff'
    BY DEF OfficeNext, office, AtStaff
<1>4. Staff!Sensible
    BY StaffAssumption DEF Staff!Sensible
<1>5. Staff!Spec => []Staff!StaffIsSafe
    BY <1>4, Staff!StaffStaysSafe
<1>6. OfficeSpec /\ AtStaff => Staff!Spec
    BY <1>1, <1>2, PTL DEF OfficeSpec, Staff!Spec
<1>7. OfficeSpec /\ ~AtStaff => []~AtStaff
    BY <1>3, PTL DEF OfficeSpec
<1>8. (~AtStaff => StaffIsSafe) /\ (Staff!StaffIsSafe => StaffIsSafe)
    BY DEF StaffIsSafe, AtStaff
<1> QED
    BY <1>5, <1>6, <1>7, <1>8, PTL

-----------------------------------------------------------------------------
(* Signing in. *)
AtIdentity  == part = "identity"
AtPasswords == part = "passwords"

(* However many requests the auth, mfa, accounts and password services     *)
(* answer at the same moment, secrets work once but for the TOTP codes in  *)
(* exempt, the lock holds, one set of recovery codes and one link are in   *)
(* force but for what a confirmation beside a switch-off (astray) and      *)
(* links asked for at once (beside) leave.                                 *)
THEOREM SignInStaysExact == OfficeSpec => []SignInIsExact
<1>1. /\ OfficeInit /\ AtIdentity => SignIn!Init
      /\ OfficeInit /\ AtPasswords => Passwords!Init
    BY DEF OfficeInit, AtIdentity, AtPasswords
<1>2. AtIdentity /\ [OfficeNext]_office => AtIdentity' /\ [SignIn!Next]_(SignIn!vars)
    BY DEF OfficeNext, office, SignIn!vars, AtIdentity
<1>3. AtPasswords /\ [OfficeNext]_office => AtPasswords' /\ [Passwords!Next]_(Passwords!vars)
    BY DEF OfficeNext, office, Passwords!vars, AtPasswords
<1>4. /\ ~AtIdentity /\ [OfficeNext]_office => ~AtIdentity'
      /\ ~AtPasswords /\ [OfficeNext]_office => ~AtPasswords'
    BY DEF OfficeNext, office, AtIdentity, AtPasswords
<1>5. SignIn!Sensible /\ Passwords!Sensible
    <2>1. IsFiniteSet(Worker)
        BY TableAssumption DEF TableAssumption
    <2>2. SignIn!IsFiniteSet(Worker) /\ Passwords!IsFiniteSet(Worker)
        BY <2>1 DEF IsFiniteSet, SignIn!IsFiniteSet, Passwords!IsFiniteSet
    <2> QED
        BY <2>2 DEF SignIn!Sensible, Passwords!Sensible
<1>6. SignIn!Spec => []SignIn!SignInIsExact
    BY <1>5, SignIn!SignInStaysExact
<1>7. Passwords!Spec => []Passwords!SignInIsExact
    BY <1>5, Passwords!SignInStaysExact
<1>8. OfficeSpec /\ AtIdentity => SignIn!Spec
    BY <1>1, <1>2, PTL DEF OfficeSpec, SignIn!Spec
<1>9. OfficeSpec /\ AtPasswords => Passwords!Spec
    BY <1>1, <1>3, PTL DEF OfficeSpec, Passwords!Spec
<1>10. /\ OfficeSpec /\ ~AtIdentity => []~AtIdentity
       /\ OfficeSpec /\ ~AtPasswords => []~AtPasswords
    BY <1>4, PTL DEF OfficeSpec
<1>11. /\ SignIn!SignInIsExact \/ ~AtIdentity
       /\ Passwords!SignInIsExact \/ ~AtPasswords
       => SignInIsExact
    BY DEF SignInIsExact, AtIdentity, AtPasswords
<1> QED
    BY <1>6, <1>7, <1>8, <1>9, <1>10, <1>11, PTL

-----------------------------------------------------------------------------
(* Posts. *)
AtPosts == part = "posts"

Slug    == Title \cup {Append(title, n) : title \in Title, n \in Nat}
PostRow == [slug : Slug, publishAt : Nat, version : Nat]
PostTx  == {Blog!Idle} \cup [step : {"creating"}, slug : Slug]
           \cup [step : {"open", "updating", "removing"}, post : Thing, version : Nat,
                 publisher : BOOLEAN]

(* posts, given, now and tx of Posts, well formed; an id is given out once. *)
PostTypes ==
    /\ v1 \in [DOMAIN v1 -> PostRow] /\ IsFiniteSet(DOMAIN v1)
    /\ DOMAIN v1 \subseteq v2 /\ v2 \subseteq Thing
    /\ v3 \in Nat \ {0}
    /\ v4 \in [Worker -> PostTx]

Handling(w) == v4[w].step \in {"open", "updating", "removing"}

(* The lock on slugs is one request's. *)
OneCreates == \A v, w \in Worker : v4[v].step = "creating" /\ v4[w].step = "creating" => v = w

(* A post a request has read is older than what it may have become, and one *)
(* that somebody who may only draft is about to write or to remove is a     *)
(* draft, unless it has changed.                                            *)
ReadBefore == \A w \in Worker : Handling(w) =>
    /\ v4[w].post \in v2
    /\ v4[w].post \in DOMAIN v1 => v4[w].version <= v1[v4[w].post].version
    /\ v4[w].step \in {"updating", "removing"} /\ ~v4[w].publisher /\ v4[w].post \in DOMAIN v1
          /\ v4[w].version = v1[v4[w].post].version
       => v1[v4[w].post].publishAt = Blog!Draft

PostsInv == PostTypes /\ OneCreates /\ ReadBefore /\ Blog!SlugsStayFree

(* A non-empty set of numbers has a least one. *)
LEMMA LeastNat ==
    ASSUME NEW N \in SUBSET Nat, N # {} PROVE \E m \in N : \A n \in N : m <= n
<1> DEFINE R == OpToRel(<, Nat)
<1>1. IsWellFoundedOn(R, Nat)
    BY NatLessThanWellFounded
<1>2. \A x, y \in Nat : y < x => <<y, x>> \in R
    BY Zenon DEF OpToRel
<1> HIDE DEF R
<1>3. PICK x \in N : \A y \in N : ~ (<<y, x>> \in R)
    BY <1>1, WFMin
<1>4. ASSUME NEW n \in N PROVE x <= n
    <2>1. x \in Nat /\ n \in Nat
        OBVIOUS
    <2>2. ~ (n < x)
        BY <1>2, <1>3, <2>1, Zenon
    <2> QED
        BY <2>1, <2>2
<1> QED
    BY <1>4

(* A title and what is appended to it begin with the title. *)
LEMMA TitleIsPrefix ==
    ASSUME NEW title \in Title
    PROVE  /\ Blog!Seqs!IsPrefix(title, title)
           /\ \A n \in Nat : Blog!Seqs!IsPrefix(title, Append(title, n))
           /\ \A m, n \in Nat : Append(title, m) = Append(title, n) => m = n
<1> DEFINE W == {title[k] : k \in DOMAIN title} \cup Nat
<1>1. title \in Seq(W)
    <2>1. title \in Seq({title[k] : k \in DOMAIN title})
        <3>1. title \in [1..Len(title) -> {title[k] : k \in DOMAIN title}] /\ Len(title) \in Nat
            BY PostAssumption
        <3> QED
            BY <3>1, SeqDef
    <2> QED
        BY <2>1, SeqMonotonic
<1> HIDE DEF W
<1>2. ASSUME NEW n \in Nat
      PROVE  /\ Append(title, n) \in Seq(W)
             /\ Len(Append(title, n)) = Len(title) + 1
             /\ Append(title, n)[Len(title) + 1] = n
             /\ \A k \in 1..Len(title) : Append(title, n)[k] = title[k]
    <2>1. n \in W
        BY DEF W
    <2> QED
        BY <1>1, <2>1
<1>3. ASSUME NEW t \in Seq(W), Len(t) >= Len(title), \A k \in 1..Len(title) : t[k] = title[k]
      PROVE  Blog!Seqs!IsPrefix(title, t)
    BY <1>1, <1>3 DEF Blog!Seqs!IsPrefix
<1>4. ASSUME NEW n \in Nat PROVE Blog!Seqs!IsPrefix(title, Append(title, n))
    <2>1. Len(title) \in Nat /\ Len(Append(title, n)) >= Len(title)
        BY <1>1, <1>2
    <2> QED
        BY <1>2, <1>3, <2>1
<1>5. Blog!Seqs!IsPrefix(title, title)
    BY <1>1, <1>3
<1>6. \A m, n \in Nat : Append(title, m) = Append(title, n) => m = n
    BY <1>2
<1> QED
    BY <1>4, <1>5, <1>6

(* uniqueSlug finds a free number: it tries one more than there are slugs  *)
(* that begin like this one.                                               *)
LEMMA UniqueSlugIsFree ==
    ASSUME NEW title \in Title, NEW slugs \in SUBSET Slug, IsFiniteSet(slugs)
    PROVE  LET slug == Blog!UniqueSlug(title, {s \in slugs : Blog!Seqs!IsPrefix(title, s)})
           IN  slug \in Slug \ slugs
<1> DEFINE taken == {s \in slugs : Blog!Seqs!IsPrefix(title, s)}
           N == 2..Blog!Cardinality(taken) + 2
           Free(n) == Append(title, n) \notin taken
           T == {n \in N : Free(n)}
<1>1. IsFiniteSet(taken) /\ Cardinality(taken) \in Nat
    BY FS_Subset, FS_CardinalityType
<1>c. Blog!Cardinality(taken) = Cardinality(taken)
    BY DEF Blog!Cardinality, Cardinality
<1>2. IsFiniteSet(N) /\ Cardinality(N) = Cardinality(taken) + 1 /\ N \in SUBSET Nat
    <2> HIDE DEF taken
    <2>1. 2 \in Int /\ Cardinality(taken) + 2 \in Int
        BY <1>1
    <2>2. IsFiniteSet(N) /\ Cardinality(N) = (IF 2 > Cardinality(taken) + 2 THEN 0
                                              ELSE (Cardinality(taken) + 2) - 2 + 1)
        BY <1>c, <2>1, FS_Interval
    <2> QED
        BY <1>1, <1>c, <2>2
<1>3. T # {}
    <2> SUFFICES ASSUME T = {} PROVE FALSE
        OBVIOUS
    <2> DEFINE f == [n \in N |-> Append(title, n)]
    <2>1. f \in [N -> taken]
        BY <1>2
    <2>2. Cardinality(taken) < Cardinality(N)
        <3> HIDE DEF taken, N
        <3> QED
            BY <1>1, <1>2
    <2>3. \E m, n \in N : m # n /\ f[m] = f[n]
        <3> HIDE DEF f, taken, N, Free, T
        <3>1. IsFiniteSet(N) /\ IsFiniteSet(taken)
            BY <1>1, <1>2
        <3> QED
            BY <2>1, <2>2, <3>1, FS_PigeonHole, Zenon
    <2> QED
        BY <1>2, <2>3, TitleIsPrefix
<1>4. PICK m \in T : \A n \in T : m <= n
    <2>1. T \in SUBSET Nat
        BY <1>2
    <2> HIDE DEF T
    <2> QED
        BY <1>3, <2>1, LeastNat
<1>5. \A k \in 2..m - 1 : ~Free(k)
    <2> SUFFICES ASSUME NEW k \in 2..m - 1 PROVE ~Free(k)
        OBVIOUS
    <2>1. k \in N /\ ~ (m <= k)
        BY <1>1, <1>2, <1>4, <1>c
    <2> QED
        BY <1>4, <2>1
<1> DEFINE First(n) == /\ Append(title, n) \notin taken
                       /\ \A k \in 2..n - 1 : Append(title, k) \in taken
           first == CHOOSE n \in N : First(n)
<1>6. first \in N /\ Free(first)
    <2>1. \E n \in N : First(n)
        BY <1>4, <1>5
    <2>2. first \in N /\ First(first)
        <3> HIDE DEF N, First
        <3> QED
            BY <2>1
    <2> QED
        BY <2>2
<1>7. Blog!UniqueSlug(title, taken) = IF title \notin taken THEN title ELSE Append(title, first)
    BY DEF Blog!UniqueSlug
<1> HIDE DEF first
<1>8. /\ title \notin taken => title \notin slugs
      /\ Append(title, first) \in Slug \ slugs
    BY <1>2, <1>6, TitleIsPrefix DEF Slug
<1>9. title \in Slug
    BY DEF Slug
<1> HIDE DEF taken
<1>10. Blog!UniqueSlug(title, taken) \in Slug \ slugs
    BY <1>7, <1>8, <1>9
<1> QED
    BY <1>10 DEF taken

(* What a write needs, and what it does: one post, by its author's request. *)
WritesPost(w, publishAt) ==
    /\ v4[w].step \in {"open", "updating"} /\ v4[w].post \in DOMAIN v1 /\ publishAt \in Nat
    /\ \/ v4[w].step = "updating" /\ publishAt = v1[v4[w].post].publishAt
       \/ v4[w].publisher
    /\ Blog!Write(w, publishAt)

LEMMA PostSteps ==
    ASSUME PostsInv, [Blog!Next]_(Blog!vars)
    PROVE  \/ \E w \in Worker, title \in Title : Blog!PickSlug(w, title)
           \/ \E w \in Worker, p \in Thing : Blog!Create(w, p)
           \/ \E w \in Worker, p \in Thing, publisher \in BOOLEAN : Blog!Open(w, p, publisher)
           \/ \E w \in Worker, step \in {"updating", "removing"} : Blog!Check(w, step)
           \/ \E w \in Worker, publishAt \in Nat : WritesPost(w, publishAt)
           \/ \E w \in Worker : Blog!Remove(w)
           \/ \E w \in Worker : Blog!GiveUp(w)
           \/ Blog!TimePasses
           \/ UNCHANGED Blog!vars
<1>1. CASE Blog!Next
    <2>1. ASSUME NEW w \in Worker, Blog!Update(w)
          PROVE  \E publishAt \in Nat : WritesPost(w, publishAt)
        <3>1. /\ v4[w].post \in DOMAIN v1 /\ v4[w].step = "updating"
              /\ Blog!Write(w, v1[v4[w].post].publishAt)
            BY <2>1 DEF Blog!Update, Blog!Has
        <3>2. v1[v4[w].post].publishAt \in Nat
            BY <3>1 DEF PostsInv, PostTypes, PostRow
        <3> QED
            BY <3>1, <3>2 DEF WritesPost
    <2>2. ASSUME NEW w \in Worker, NEW requested \in 1..MaxPostTime, Blog!Publish(w, requested)
          PROVE  \E publishAt \in Nat : WritesPost(w, publishAt)
        <3> DEFINE at == IF requested > v3 THEN requested ELSE v3
        <3>1. at \in Nat
            BY PostAssumption DEF PostsInv, PostTypes
        <3>2. /\ v4[w].post \in DOMAIN v1 /\ v4[w].step = "open" /\ v4[w].publisher
              /\ Blog!Write(w, at)
            BY <2>2 DEF Blog!Publish, Blog!Has
        <3> QED
            BY <3>1, <3>2 DEF WritesPost
    <2>3. ASSUME NEW w \in Worker, Blog!Unpublish(w)
          PROVE  \E publishAt \in Nat : WritesPost(w, publishAt)
        <3>1. /\ v4[w].post \in DOMAIN v1 /\ v4[w].step = "open" /\ v4[w].publisher
              /\ Blog!Write(w, Blog!Draft) /\ Blog!Draft \in Nat
            BY <2>3 DEF Blog!Unpublish, Blog!Has, Blog!Draft
        <3> QED
            BY <3>1 DEF WritesPost
    <2> QED
        BY <1>1, <2>1, <2>2, <2>3 DEF Blog!Next
<1> QED
    BY <1>1

LEMMA StoredSlugs ==
    ASSUME PostTypes
    PROVE  Blog!Slugs \in SUBSET Slug /\ IsFiniteSet(Blog!Slugs)
<1> DEFINE f == [p \in DOMAIN v1 |-> v1[p].slug]
<1>1. f \in Surjection(DOMAIN v1, Blog!Slugs)
    BY DEF Surjection, Blog!Slugs
<1>2. Blog!Slugs \in SUBSET Slug /\ IsFiniteSet(DOMAIN v1)
    BY DEF PostTypes, PostRow, Blog!Slugs
<1> HIDE DEF f
<1> QED
    BY <1>1, <1>2, FS_Surjection

(* What a request reads stays well formed, and so do the rows. *)
LEMMA PostTypesKept ==
    ASSUME PostsInv, [Blog!Next]_(Blog!vars)
    PROVE  PostTypes'
<1> USE DEF PostTypes
<1>t. PostTypes
    BY DEF PostsInv
<1>1. ASSUME NEW w \in Worker, NEW title \in Title, Blog!PickSlug(w, title) PROVE PostTypes'
    <2> DEFINE slugs == Blog!Slugs
               slug == Blog!UniqueSlug(title, {s \in slugs : Blog!Seqs!IsPrefix(title, s)})
    <2>1. slugs \in SUBSET Slug /\ IsFiniteSet(slugs)
        BY <1>t, StoredSlugs
    <2>2. slug \in Slug
        <3> HIDE DEF slugs
        <3> QED
            BY <2>1, UniqueSlugIsFree
    <2>3. v4' = [v4 EXCEPT ![w] = [step |-> "creating", slug |-> slug]] /\ UNCHANGED <<v1, v2, v3>>
        BY <1>1 DEF Blog!PickSlug
    <2> HIDE DEF slug
    <2> QED
        BY <1>t, <2>2, <2>3 DEF PostTx
<1>2. ASSUME NEW w \in Worker, NEW p \in Thing, Blog!Create(w, p) PROVE PostTypes'
    <2>1. v4[w] \in [step : {"creating"}, slug : Slug]
        BY <1>t, <1>2 DEF Blog!Create, PostTx, Blog!Idle
    <2>2. v4' \in [Worker -> PostTx]
        BY <1>t, <1>2 DEF Blog!Create, Blog!Ends, PostTx
    <2>3. DOMAIN v1' = DOMAIN v1 \cup {p} /\ v1' \in [DOMAIN v1' -> PostRow]
        BY <1>t, <1>2, <2>1 DEF Blog!Create, Blog!Draft, PostRow
    <2>4. IsFiniteSet(DOMAIN v1')
        BY <1>t, <2>3, FS_AddElement
    <2> QED
        BY <1>t, <1>2, <2>2, <2>3, <2>4 DEF Blog!Create
<1>3. ASSUME NEW w \in Worker, NEW p \in Thing, NEW publisher \in BOOLEAN,
             Blog!Open(w, p, publisher)
      PROVE  PostTypes'
    BY <1>t, <1>3 DEF Blog!Open, PostTx, PostRow
<1>4. ASSUME NEW w \in Worker, NEW step \in {"updating", "removing"}, Blog!Check(w, step)
      PROVE  PostTypes'
    BY <1>t, <1>4 DEF Blog!Check, Blog!Has, PostTx, Blog!Idle
<1>5. ASSUME NEW w \in Worker, NEW publishAt \in Nat, WritesPost(w, publishAt) PROVE PostTypes'
    <2>1. DOMAIN v1' = DOMAIN v1 /\ v1' \in [DOMAIN v1 -> PostRow]
        BY <1>t, <1>5 DEF WritesPost, Blog!Write, PostRow
    <2>2. v4' \in [Worker -> PostTx]
        BY <1>t, <1>5 DEF WritesPost, Blog!Write, Blog!Ends, PostTx
    <2> QED
        BY <1>t, <1>5, <2>1, <2>2 DEF WritesPost, Blog!Write
<1>6. ASSUME NEW w \in Worker, Blog!Remove(w) PROVE PostTypes'
    <2>1. /\ DOMAIN v1' = DOMAIN v1 \ {v4[w].post}
          /\ v1' \in [DOMAIN v1' -> PostRow]
        BY <1>t, <1>6 DEF Blog!Remove
    <2>2. IsFiniteSet(DOMAIN v1')
        BY <1>t, <2>1, FS_Subset
    <2>3. v4' \in [Worker -> PostTx]
        BY <1>t, <1>6 DEF Blog!Remove, Blog!Ends, PostTx
    <2> QED
        BY <1>t, <1>6, <2>1, <2>2, <2>3 DEF Blog!Remove
<1>7. ASSUME NEW w \in Worker, Blog!GiveUp(w) PROVE PostTypes'
    BY <1>t, <1>7 DEF Blog!GiveUp, Blog!Ends, PostTx
<1>8. CASE Blog!TimePasses
    BY <1>t, <1>8 DEF Blog!TimePasses
<1>9. CASE UNCHANGED Blog!vars
    BY <1>t, <1>9 DEF Blog!vars
<1> QED
    BY <1>1, <1>2, <1>3, <1>4, <1>5, <1>6, <1>7, <1>8, <1>9, PostSteps

LEMMA ReadBeforeKept ==
    ASSUME PostsInv, [Blog!Next]_(Blog!vars)
    PROVE  OneCreates' /\ ReadBefore'
<1> USE DEF Handling
<1>t. PostTypes /\ OneCreates /\ ReadBefore
    BY DEF PostsInv
<1>u. /\ v4 \in [Worker -> PostTx] /\ v1 \in [DOMAIN v1 -> PostRow] /\ DOMAIN v1 \subseteq v2
      /\ \A w \in Worker : Handling(w) => v4[w].version \in Nat
    BY <1>t DEF PostTypes, PostTx, Blog!Idle
<1>1. ASSUME NEW w \in Worker, NEW title \in Title, Blog!PickSlug(w, title)
      PROVE  OneCreates' /\ ReadBefore'
    BY <1>t, <1>u, <1>1 DEF Blog!PickSlug, OneCreates, ReadBefore
<1>2. ASSUME NEW w \in Worker, NEW p \in Thing, Blog!Create(w, p) PROVE OneCreates' /\ ReadBefore'
    <2>1. /\ v4' = [v4 EXCEPT ![w] = Blog!Idle] /\ v2' = v2 \cup {p}
          /\ DOMAIN v1' = DOMAIN v1 \cup {p} /\ p \notin v2
          /\ \A q \in DOMAIN v1 : v1'[q] = v1[q]
        BY <1>u, <1>2 DEF Blog!Create, Blog!Ends
    <2>2. \A v \in Worker \ {w} : v4'[v] = v4[v]
        BY <1>u, <2>1
    <2>3. v4'[w].step = "idle"
        BY <1>u, <2>1 DEF Blog!Idle
    <2> QED
        BY <1>t, <1>u, <2>1, <2>2, <2>3 DEF OneCreates, ReadBefore
<1>3. ASSUME NEW w \in Worker, NEW p \in Thing, NEW publisher \in BOOLEAN,
             Blog!Open(w, p, publisher)
      PROVE  OneCreates' /\ ReadBefore'
    <2>1. /\ v4' = [v4 EXCEPT ![w] = [step |-> "open", post |-> p, version |-> v1[p].version,
                                      publisher |-> publisher]]
          /\ p \in DOMAIN v1 /\ UNCHANGED <<v1, v2>>
        BY <1>3 DEF Blog!Open
    <2> QED
        BY <1>t, <1>u, <2>1 DEF OneCreates, ReadBefore, PostRow
<1>4. ASSUME NEW w \in Worker, NEW step \in {"updating", "removing"}, Blog!Check(w, step)
      PROVE  OneCreates' /\ ReadBefore'
    <2>1. /\ v4[w].step = "open" /\ v4' = [v4 EXCEPT ![w].step = step] /\ UNCHANGED <<v1, v2>>
          /\ v4[w].publisher \/ v1[v4[w].post].publishAt = Blog!Draft
        BY <1>4 DEF Blog!Check, Blog!Has, Blog!MayChange
    <2>2. /\ v4'[w].step = step /\ v4'[w].post = v4[w].post /\ v4'[w].version = v4[w].version
          /\ v4'[w].publisher = v4[w].publisher
        BY <1>u, <2>1 DEF PostTx, Blog!Idle
    <2>3. \A v \in Worker \ {w} : v4'[v] = v4[v]
        BY <1>u, <2>1
    <2> QED
        BY <1>t, <1>u, <2>1, <2>2, <2>3 DEF OneCreates, ReadBefore
<1>5. ASSUME NEW w \in Worker, NEW publishAt \in Nat, WritesPost(w, publishAt)
      PROVE  OneCreates' /\ ReadBefore'
    <2>1. PICK p \in DOMAIN v1 : p = v4[w].post
        BY <1>5 DEF WritesPost
    <2>2. /\ v4' = [v4 EXCEPT ![w] = Blog!Idle] /\ UNCHANGED v2
          /\ v1' = [v1 EXCEPT ![p].publishAt = publishAt, ![p].version = @ + 1]
        BY <1>5, <2>1 DEF WritesPost, Blog!Write, Blog!Ends
    <2>3. /\ DOMAIN v1' = DOMAIN v1 /\ v1[p].version \in Nat
          /\ v1'[p].version = v1[p].version + 1
          /\ \A q \in DOMAIN v1 \ {p} : v1'[q] = v1[q]
        BY <1>u, <2>2 DEF PostRow
    <2>4. v4'[w].step = "idle" /\ \A v \in Worker \ {w} : v4'[v] = v4[v]
        BY <1>u, <2>2 DEF Blog!Idle
    <2>5. OneCreates'
        BY <1>t, <2>4 DEF OneCreates
    <2>6. ASSUME NEW v \in Worker, Handling(v)', v4[v].post = p
          PROVE  v4[v].version < v1'[p].version
        BY <1>t, <1>u, <2>3, <2>4, <2>6 DEF ReadBefore
    <2> QED
        BY <1>t, <1>u, <2>2, <2>3, <2>4, <2>5, <2>6 DEF ReadBefore
<1>6. ASSUME NEW w \in Worker, Blog!Remove(w) PROVE OneCreates' /\ ReadBefore'
    <2>1. /\ v4' = [v4 EXCEPT ![w] = Blog!Idle] /\ UNCHANGED v2
          /\ DOMAIN v1' \subseteq DOMAIN v1 /\ \A q \in DOMAIN v1' : v1'[q] = v1[q]
        BY <1>6 DEF Blog!Remove, Blog!Ends
    <2>2. v4'[w].step = "idle" /\ \A v \in Worker \ {w} : v4'[v] = v4[v]
        BY <1>u, <2>1 DEF Blog!Idle
    <2> QED
        BY <1>t, <2>1, <2>2 DEF OneCreates, ReadBefore
<1>7. ASSUME NEW w \in Worker, Blog!GiveUp(w) PROVE OneCreates' /\ ReadBefore'
    BY <1>t, <1>u, <1>7 DEF Blog!GiveUp, Blog!Ends, Blog!Idle, OneCreates, ReadBefore
<1>8. CASE Blog!TimePasses
    BY <1>t, <1>8 DEF Blog!TimePasses, OneCreates, ReadBefore
<1>9. CASE UNCHANGED Blog!vars
    BY <1>t, <1>9 DEF Blog!vars, OneCreates, ReadBefore
<1> QED
    BY <1>1, <1>2, <1>3, <1>4, <1>5, <1>6, <1>7, <1>8, <1>9, PostSteps

(* A free slug stays free until its post is inserted: posts keep the slug  *)
(* they were given.                                                        *)
LEMMA SlugsKept ==
    ASSUME PostsInv, [Blog!Next]_(Blog!vars)
    PROVE  Blog!SlugsStayFree'
<1> USE DEF Blog!SlugsStayFree
<1>t. PostTypes /\ OneCreates /\ Blog!SlugsStayFree
    BY DEF PostsInv
<1>u. /\ v4 \in [Worker -> PostTx] /\ v1 \in [DOMAIN v1 -> PostRow] /\ IsFiniteSet(DOMAIN v1)
    BY <1>t DEF PostTypes
<1>1. ASSUME NEW w \in Worker, NEW title \in Title, Blog!PickSlug(w, title)
      PROVE  Blog!SlugsStayFree'
    <2> DEFINE slugs == Blog!Slugs
               slug == Blog!UniqueSlug(title, {s \in slugs : Blog!Seqs!IsPrefix(title, s)})
    <2>1. slugs \in SUBSET Slug /\ IsFiniteSet(slugs)
        BY <1>t, StoredSlugs
    <2>2. slug \notin slugs
        <3> HIDE DEF slugs
        <3> QED
            BY <2>1, UniqueSlugIsFree
    <2>3. v4' = [v4 EXCEPT ![w] = [step |-> "creating", slug |-> slug]] /\ UNCHANGED <<v1, v2, v3>>
        BY <1>1 DEF Blog!PickSlug
    <2> HIDE DEF slug
    <2> QED
        BY <1>t, <1>u, <2>2, <2>3 DEF Blog!Slugs
<1>2. ASSUME NEW w \in Worker, NEW p \in Thing, Blog!Create(w, p) PROVE Blog!SlugsStayFree'
    <2>1. \A v \in Worker : v4'[v].step # "creating"
        BY <1>t, <1>u, <1>2 DEF Blog!Create, Blog!Ends, Blog!Idle, OneCreates
    <2> QED
        BY <2>1
<1>3. ASSUME NEW w \in Worker, NEW p \in Thing, NEW publisher \in BOOLEAN,
             Blog!Open(w, p, publisher)
      PROVE  Blog!SlugsStayFree'
    BY <1>t, <1>u, <1>3 DEF Blog!Open, Blog!Slugs
<1>4. ASSUME NEW w \in Worker, NEW step \in {"updating", "removing"}, Blog!Check(w, step)
      PROVE  Blog!SlugsStayFree'
    BY <1>t, <1>u, <1>4 DEF Blog!Check, Blog!Has, PostTx, Blog!Idle, Blog!Slugs
<1>5. ASSUME NEW w \in Worker, NEW publishAt \in Nat, WritesPost(w, publishAt)
      PROVE  Blog!SlugsStayFree'
    <2>1. DOMAIN v1' = DOMAIN v1 /\ \A p \in DOMAIN v1 : v1'[p].slug = v1[p].slug
        BY <1>u, <1>5 DEF WritesPost, Blog!Write, PostRow
    <2>2. v4' = [v4 EXCEPT ![w] = Blog!Idle]
        BY <1>5 DEF WritesPost, Blog!Write, Blog!Ends
    <2> QED
        BY <1>t, <1>u, <2>1, <2>2 DEF Blog!Idle, Blog!Slugs
<1>6. ASSUME NEW w \in Worker, Blog!Remove(w) PROVE Blog!SlugsStayFree'
    BY <1>t, <1>u, <1>6 DEF Blog!Remove, Blog!Ends, Blog!Idle, Blog!Slugs
<1>7. ASSUME NEW w \in Worker, Blog!GiveUp(w) PROVE Blog!SlugsStayFree'
    BY <1>t, <1>u, <1>7 DEF Blog!GiveUp, Blog!Ends, Blog!Idle, Blog!Slugs
<1>8. CASE Blog!TimePasses
    BY <1>t, <1>8 DEF Blog!TimePasses, Blog!Slugs
<1>9. CASE UNCHANGED Blog!vars
    BY <1>t, <1>9 DEF Blog!vars, Blog!Slugs
<1> QED
    BY <1>1, <1>2, <1>3, <1>4, <1>5, <1>6, <1>7, <1>8, <1>9, PostSteps

(* What someone who may only draft touches, by each kind of step.           *)
LEMMA PublishersDecided ==
    ASSUME PostsInv, [Blog!Next]_(Blog!vars)
    PROVE  Blog!PublishersDecide
<1> USE DEF Blog!PublishersDecide
<1>t. PostTypes /\ ReadBefore
    BY DEF PostsInv
<1>u. /\ v4 \in [Worker -> PostTx] /\ v1 \in [DOMAIN v1 -> PostRow]
      /\ DOMAIN v1 \subseteq v2
    BY <1>t DEF PostTypes
<1>1. ASSUME DOMAIN v1 \subseteq DOMAIN v1', \A p \in DOMAIN v1 : v1'[p] = v1[p]
      PROVE  Blog!PublishersDecide
    BY <1>1 DEF Blog!Touched, Blog!TouchedByDrafter
<1>2. ASSUME NEW w \in Worker, NEW publishAt \in Nat, WritesPost(w, publishAt)
      PROVE  Blog!PublishersDecide
    <2>1. PICK p \in DOMAIN v1 : p = v4[w].post
        BY <1>2 DEF WritesPost
    <2>2. /\ v4' = [v4 EXCEPT ![w] = Blog!Idle]
          /\ v1' = [v1 EXCEPT ![p].publishAt = publishAt, ![p].version = @ + 1]
          /\ v1[p].version = v4[w].version
        BY <1>2, <2>1 DEF WritesPost, Blog!Write, Blog!Ends
    <2>3. Blog!Touched \subseteq {p} /\ \A v \in Worker \ {w} : v4'[v] = v4[v]
        BY <1>u, <2>2 DEF Blog!Touched
    <2>4. CASE v4[w].publisher
        BY <2>3, <2>4 DEF Blog!TouchedByDrafter
    <2>5. CASE ~v4[w].publisher
        <3>1. v4[w].step = "updating"
            BY <1>2, <2>5 DEF WritesPost
        <3>2. v1[p].publishAt = Blog!Draft
            BY <1>t, <2>1, <2>2, <2>5, <3>1 DEF ReadBefore, Handling
        <3> QED
            BY <2>3, <3>2 DEF Blog!TouchedByDrafter
    <2> QED
        BY <2>4, <2>5
<1>3. ASSUME NEW w \in Worker, NEW title \in Title, Blog!PickSlug(w, title)
      PROVE  Blog!PublishersDecide
    BY <1>1, <1>3 DEF Blog!PickSlug
<1>4. ASSUME NEW w \in Worker, NEW p \in Thing, Blog!Create(w, p) PROVE Blog!PublishersDecide
    <2>1. p \notin DOMAIN v1
        BY <1>u, <1>4 DEF Blog!Create
    <2> QED
        BY <1>1, <1>4, <2>1 DEF Blog!Create
<1>5. ASSUME NEW w \in Worker, NEW p \in Thing, NEW publisher \in BOOLEAN,
             Blog!Open(w, p, publisher)
      PROVE  Blog!PublishersDecide
    BY <1>1, <1>5 DEF Blog!Open
<1>6. ASSUME NEW w \in Worker, NEW step \in {"updating", "removing"}, Blog!Check(w, step)
      PROVE  Blog!PublishersDecide
    BY <1>1, <1>6 DEF Blog!Check
<1>7. ASSUME NEW w \in Worker, Blog!Remove(w) PROVE Blog!PublishersDecide
    <2> DEFINE p == v4[w].post
    <2>1. /\ v4[w].step = "removing" /\ p \in DOMAIN v1
          /\ v1' = [q \in DOMAIN v1 \ {p} |-> v1[q]] /\ v4' = [v4 EXCEPT ![w] = Blog!Idle]
        BY <1>7 DEF Blog!Remove, Blog!Has, Blog!Ends
    <2>2. /\ Blog!Touched = {p} /\ p \notin DOMAIN v1' /\ v4'[w] = Blog!Idle
          /\ \A v \in Worker \ {w} : v4'[v] = v4[v]
        BY <1>u, <2>1 DEF Blog!Touched
    <2>3. CASE v4[w].publisher
        BY <2>2, <2>3 DEF Blog!TouchedByDrafter
    <2>4. CASE ~v4[w].publisher
        <3>1. /\ v4[w].version <= v1[p].version
              /\ v4[w].version = v1[p].version => v1[p].publishAt = Blog!Draft
            BY <1>t, <2>1, <2>4 DEF ReadBefore, Handling
        <3>2. v4[w].version \in Nat /\ v1[p].version \in Nat
            BY <1>u, <2>1 DEF PostTx, PostRow, Blog!Idle
        <3>3. v1[p].publishAt # Blog!Draft => v4[w].version < v1[p].version
            BY <3>1, <3>2
        <3> QED
            BY <2>1, <2>2, <3>3 DEF Blog!RemovedLate, Blog!TouchedByDrafter
    <2> QED
        BY <2>3, <2>4
<1>8. ASSUME NEW w \in Worker, Blog!GiveUp(w) PROVE Blog!PublishersDecide
    BY <1>1, <1>8 DEF Blog!GiveUp
<1>9. CASE Blog!TimePasses
    BY <1>1, <1>9 DEF Blog!TimePasses
<1>10. CASE UNCHANGED Blog!vars
    BY <1>1, <1>10 DEF Blog!vars
<1> QED
    BY <1>2, <1>3, <1>4, <1>5, <1>6, <1>7, <1>8, <1>9, <1>10, PostSteps

AtPostsInv == AtPosts => PostsInv

LEMMA PostsStay ==
    /\ OfficeInit => AtPostsInv
    /\ AtPostsInv /\ [OfficeNext]_office => AtPostsInv'
    /\ AtPostsInv /\ [OfficeNext]_office
          => [part = "posts" => Blog!SlugsStayFree' /\ Blog!PublishersDecide]_office
<1>1. OfficeInit => AtPostsInv
    <2> SUFFICES ASSUME OfficeInit, AtPosts PROVE PostsInv
        BY DEF AtPostsInv
    <2>1. Blog!Init
        BY DEF OfficeInit, AtPosts
    <2>2. DOMAIN v1 = {} /\ v4 = [w \in Worker |-> Blog!Idle] /\ v2 = {} /\ v3 = 1
        BY <2>1 DEF Blog!Init
    <2>3. PostTypes
        BY <2>2, FS_EmptySet DEF PostTypes, PostTx
    <2> QED
        BY <2>2, <2>3
        DEF PostsInv, OneCreates, ReadBefore, Handling, Blog!SlugsStayFree, Blog!Idle
<1>2. ASSUME AtPostsInv, [OfficeNext]_office, AtPosts \/ AtPosts'
      PROVE  AtPosts /\ PostsInv /\ [Blog!Next]_(Blog!vars)
    BY <1>2 DEF AtPostsInv, AtPosts, OfficeNext, office, Blog!vars
<1>3. ASSUME AtPostsInv, [OfficeNext]_office PROVE AtPostsInv'
    BY <1>2, <1>3, PostTypesKept, ReadBeforeKept, SlugsKept DEF AtPostsInv, PostsInv
<1>4. ASSUME AtPostsInv, [OfficeNext]_office, AtPosts
      PROVE  Blog!SlugsStayFree' /\ Blog!PublishersDecide
    BY <1>2, <1>4, SlugsKept, PublishersDecided
<1> QED
    BY <1>1, <1>3, <1>4 DEF AtPosts

(* Nobody who may only draft edits what is live or scheduled although the  *)
(* check and the write are two statements, they remove it only when it has *)
(* changed since they loaded it, and a new slug is free when it is         *)
(* inserted (posts.service.ts), for any number of posts, people and edits. *)
THEOREM PostsStayGuarded == OfficeSpec => PostsAreGuarded
BY PostsStay, PTL DEF OfficeSpec, PostsAreGuarded

-----------------------------------------------------------------------------
(* Certificates and cards. *)
AtDocuments == part = "documents"

DocumentTx == {Papers!Idle} \cup [step : {"eligible", "student"}]
              \cup [step : {"cleared"}, holder : Thing] \cup [step : {"revoking"}, certificate : Nat]
              \cup [step : {"replacing"}, old : SUBSET Nat]

(* student, certificates, studentCards, today and tx of Documents.          *)
DocumentTypes ==
    /\ v1 \in [name : Thing, active : BOOLEAN]
    /\ v5 \in Seq(Papers!Certificate) /\ v6 \in Seq(Papers!StudentCard)
    /\ v7 \in Nat /\ v8 \in [Worker -> DocumentTx]

(* One certificate is live, and of the cards the last one at most. *)
DocumentsInv ==
    /\ DocumentTypes
    /\ \A j, k \in DOMAIN v5 : v5[j].status = "issued" /\ v5[k].status = "issued" => j = k
    /\ \A k \in DOMAIN v6 : v6[k].status = "active" => k = Len(v6)

LEMMA LiveOnes ==
    ASSUME DocumentsInv
    PROVE  Papers!OneVerifies
<1>1. /\ \A k \in DOMAIN v5 : v5[k].status \in {"issued", "revoked"}
      /\ \A k \in DOMAIN v6 : v6[k].status \in {"active", "revoked"}
    <2>1. /\ \A k \in DOMAIN v5 : v5[k] \in Papers!Certificate
          /\ \A k \in DOMAIN v6 : v6[k] \in Papers!StudentCard
        BY DEF DocumentsInv, DocumentTypes
    <2> QED
        BY <2>1 DEF Papers!Certificate, Papers!StudentCard
<1>2. \A k \in DOMAIN v5 : Papers!VerifyCertificate(k).status = "revoked" <=> v5[k].status = "revoked"
    BY DEF Papers!VerifyCertificate
<1>3. \A k \in DOMAIN v6 : Papers!VerifyCard(k) # "revoked" => v6[k].status # "revoked"
    BY DEF Papers!VerifyCard
<1>4. \A j, k \in DOMAIN v5 :
          j # k => "revoked" \in {Papers!VerifyCertificate(j).status, Papers!VerifyCertificate(k).status}
    BY <1>1, <1>2 DEF DocumentsInv
<1>5. \A k \in DOMAIN v6 : Papers!VerifyCard(k) # "revoked" => k = Len(v6)
    BY <1>1, <1>3 DEF DocumentsInv
<1> QED
    BY <1>4, <1>5 DEF Papers!OneVerifies

(* A function on the places of a sequence is a sequence of the same length. *)
LEMMA SameShape ==
    ASSUME NEW S, NEW R, NEW s \in Seq(R), NEW t, t = [k \in DOMAIN s |-> t[k]],
           \A k \in DOMAIN s : t[k] \in S
    PROVE  t \in Seq(S) /\ Len(t) = Len(s) /\ DOMAIN t = DOMAIN s
<1>1. Len(s) \in Nat /\ DOMAIN s = 1..Len(s)
    OBVIOUS
<1>2. t \in [1..Len(s) -> S]
    BY <1>1
<1>3. t \in Seq(S)
    BY <1>1, <1>2, SeqDef
<1> QED
    BY <1>1, <1>2, <1>3

(* A table of documents is replaced by one in which each row is the same,  *)
(* or revoked.                                                             *)
Worsens(docs, newer) ==
    \A k \in DOMAIN docs : /\ k \in DOMAIN newer
                           /\ \/ newer[k] = docs[k]
                              \/ newer[k] = [docs[k] EXCEPT !.status = "revoked"]

LEMMA AnswersFollow ==
    ASSUME DocumentTypes, Worsens(v5, v5'), Worsens(v6, v6'), v7' \in Nat, v7 <= v7'
    PROVE  Papers!AnswersOnlyWorsen
<1>1. ASSUME NEW k \in DOMAIN v5
      PROVE  \/ Papers!VerifyCertificate(k)' = Papers!VerifyCertificate(k)
             \/ Papers!VerifyCertificate(k)'
                   = [Papers!VerifyCertificate(k) EXCEPT !.status = "revoked"]
    <2>1. v5[k] \in Papers!Certificate
        BY DEF DocumentTypes
    <2>2. v5[k].status \in {"issued", "revoked"} /\ v5[k].holder \in Thing
        BY <2>1 DEF Papers!Certificate
    <2>3. /\ Papers!VerifyCertificate(k)'
                = [status |-> IF v5'[k].status = "revoked" THEN "revoked" ELSE "valid",
                   holder |-> v5'[k].holder]
          /\ Papers!VerifyCertificate(k)
                = [status |-> IF v5[k].status = "revoked" THEN "revoked" ELSE "valid",
                   holder |-> v5[k].holder]
        BY DEF Papers!VerifyCertificate
    <2>4. CASE v5'[k] = v5[k]
        BY <2>3, <2>4
    <2>5. CASE v5'[k] = [v5[k] EXCEPT !.status = "revoked"]
        <3>1. v5'[k].status = "revoked" /\ v5'[k].holder = v5[k].holder
            BY <2>1, <2>5 DEF Papers!Certificate
        <3> QED
            BY <2>3, <3>1
    <2> QED
        BY <2>4, <2>5 DEF Worsens
<1>2. ASSUME NEW k \in DOMAIN v6
      PROVE  \/ Papers!VerifyCard(k)' = Papers!VerifyCard(k)
             \/ Papers!VerifyCard(k)' = "revoked"
             \/ Papers!VerifyCard(k) = "valid" /\ Papers!VerifyCard(k)' = "expired"
    <2>1. v6[k] \in Papers!StudentCard
        BY DEF DocumentTypes
    <2>2. v6[k].status \in {"active", "revoked"} /\ v6[k].validUntil \in Nat
        BY <2>1 DEF Papers!StudentCard
    <2>3. \/ v6'[k].status = v6[k].status /\ v6'[k].validUntil = v6[k].validUntil
          \/ v6'[k].status = "revoked"
        BY <2>1 DEF Worsens, Papers!StudentCard
    <2> QED
        BY <2>2, <2>3 DEF DocumentTypes, Papers!VerifyCard
<1> QED
    BY <1>1, <1>2 DEF Papers!AnswersOnlyWorsen

LEMMA DocumentSteps ==
    ASSUME DocumentsInv, [Papers!Next]_(Papers!vars)
    PROVE  DocumentsInv' /\ Papers!AnswersOnlyWorsen
<1> USE DEF DocumentsInv, DocumentTypes
<1> DEFINE Kept == DocumentsInv' /\ Papers!AnswersOnlyWorsen
<1>1. ASSUME v1' \in [name : Thing, active : BOOLEAN], v8' \in [Worker -> DocumentTx],
             v7' \in Nat, v7 <= v7', UNCHANGED <<v5, v6>>
      PROVE  Kept
    BY <1>1, AnswersFollow DEF Worsens
<1>2. ASSUME NEW w \in Worker, Papers!Issue(w) PROVE Kept
    <2>1. /\ v5' = Append(v5, [status |-> "issued", holder |-> v8[w].holder])
          /\ \A k \in DOMAIN v5 : v5[k].status # "issued"
          /\ v8[w].step = "cleared" /\ v8' = [v8 EXCEPT ![w] = Papers!Idle]
          /\ UNCHANGED <<v1, v6, v7>>
        BY <1>2 DEF Papers!Issue, Papers!Live, Papers!Ends
    <2>2. v8[w].holder \in Thing /\ v8' \in [Worker -> DocumentTx]
        BY <2>1 DEF DocumentTx, Papers!Idle
    <2>3. /\ v5' \in Seq(Papers!Certificate) /\ DOMAIN v5' = DOMAIN v5 \cup {Len(v5) + 1}
          /\ \A k \in DOMAIN v5 : v5'[k] = v5[k]
        BY <2>1, <2>2 DEF Papers!Certificate
    <2>4. DocumentsInv'
        BY <2>1, <2>2, <2>3
    <2>5. Worsens(v5, v5') /\ Worsens(v6, v6')
        BY <2>1, <2>3 DEF Worsens
    <2> QED
        BY <2>1, <2>4, <2>5, AnswersFollow
<1>3. ASSUME NEW w \in Worker, Papers!Revoke(w) PROVE Kept
    <2>1. /\ v5' = [v5 EXCEPT ![v8[w].certificate].status = "revoked"]
          /\ v8' = [v8 EXCEPT ![w] = Papers!Idle]
          /\ UNCHANGED <<v1, v6, v7>>
        BY <1>3 DEF Papers!Revoke, Papers!Ends
    <2>2. v8' \in [Worker -> DocumentTx]
        BY <2>1 DEF DocumentTx
    <2>3. /\ v5' \in Seq(Papers!Certificate) /\ DOMAIN v5' = DOMAIN v5
          /\ \A k \in DOMAIN v5 : v5'[k] = v5[k] \/ v5'[k] = [v5[k] EXCEPT !.status = "revoked"]
        <3>1. \A k \in DOMAIN v5 : v5[k] \in Papers!Certificate
            OBVIOUS
        <3>2. /\ DOMAIN v5' = DOMAIN v5 /\ v5' = [k \in DOMAIN v5 |-> v5'[k]]
              /\ \A k \in DOMAIN v5 : \/ v5'[k] = v5[k]
                                      \/ v5'[k] = [v5[k] EXCEPT !.status = "revoked"]
            BY <2>1
        <3>3. ASSUME NEW c \in Papers!Certificate
              PROVE  [c EXCEPT !.status = "revoked"] \in Papers!Certificate
            BY DEF Papers!Certificate
        <3>4. \A k \in DOMAIN v5 : v5'[k] \in Papers!Certificate
            BY <3>1, <3>2, <3>3, Zenon
        <3> QED
            BY <3>2, <3>4, SameShape
    <2>4. DocumentsInv'
        BY <2>1, <2>2, <2>3 DEF Papers!Certificate
    <2>5. Worsens(v5, v5') /\ Worsens(v6, v6')
        BY <2>1, <2>3 DEF Worsens
    <2> QED
        BY <2>1, <2>4, <2>5, AnswersFollow
<1>4. ASSUME NEW w \in Worker, Papers!IssueCard(w) PROVE Kept
    <2> DEFINE revoked == [k \in DOMAIN v6 |-> IF k \in v8[w].old
                                               THEN [v6[k] EXCEPT !.status = "revoked"]
                                               ELSE v6[k]]
    <2>1. /\ v6' = Append(revoked, [status |-> "active", validUntil |-> v7 + ValidDays])
          /\ \A k \in DOMAIN v6 : v6[k].status = "active" => k \in v8[w].old
          /\ v8' = [v8 EXCEPT ![w] = Papers!Idle]
          /\ UNCHANGED <<v1, v5, v7>>
        BY <1>4 DEF Papers!IssueCard, Papers!Live, Papers!Ends
    <2>2. v8' \in [Worker -> DocumentTx]
        BY <2>1 DEF DocumentTx
    <2>3. /\ revoked \in Seq(Papers!StudentCard) /\ Len(revoked) = Len(v6)
          /\ \A k \in DOMAIN v6 : revoked[k].status = "revoked"
          /\ \A k \in DOMAIN v6 : \/ revoked[k] = v6[k]
                                  \/ revoked[k] = [v6[k] EXCEPT !.status = "revoked"]
        <3>1. \A k \in DOMAIN v6 : v6[k] \in Papers!StudentCard
            OBVIOUS
        <3>2. \A k \in DOMAIN v6 : \/ revoked[k] = v6[k] /\ k \notin v8[w].old
                                   \/ revoked[k] = [v6[k] EXCEPT !.status = "revoked"]
            OBVIOUS
        <3>3. \A k \in DOMAIN v6 : revoked[k] \in Papers!StudentCard
            BY <3>1, <3>2 DEF Papers!StudentCard
        <3>4. \A k \in DOMAIN v6 : revoked[k].status = "revoked"
            BY <2>1, <3>1, <3>2 DEF Papers!StudentCard
        <3>5. revoked = [k \in DOMAIN v6 |-> revoked[k]]
            OBVIOUS
        <3> HIDE DEF revoked
        <3>6. revoked \in Seq(Papers!StudentCard) /\ Len(revoked) = Len(v6)
            BY <3>3, <3>5, SameShape
        <3> QED
            BY <3>2, <3>4, <3>6
    <2> HIDE DEF revoked
    <2>4. /\ v6' \in Seq(Papers!StudentCard) /\ Len(v6') = Len(v6) + 1
          /\ \A k \in DOMAIN v6 : v6'[k] = revoked[k]
        BY <2>1, <2>3, DocumentAssumption DEF Papers!StudentCard
    <2>5. DocumentsInv'
        BY <2>1, <2>2, <2>3, <2>4
    <2>6. Worsens(v5, v5') /\ Worsens(v6, v6')
        BY <2>1, <2>3, <2>4 DEF Worsens
    <2> QED
        BY <2>1, <2>5, <2>6, AnswersFollow
<1>5. ASSUME NEW w \in Worker, Papers!ReadEnrollment(w) PROVE Kept
    BY <1>1, <1>5 DEF Papers!ReadEnrollment, Papers!Tables, DocumentTx
<1>6. ASSUME NEW w \in Worker, Papers!ReadBalance(w) PROVE Kept
    BY <1>1, <1>6 DEF Papers!ReadBalance, Papers!Tables, DocumentTx
<1>7. ASSUME NEW w \in Worker, NEW k \in DOMAIN v5, Papers!ReadToRevoke(w, k) PROVE Kept
    BY <1>1, <1>7 DEF Papers!ReadToRevoke, Papers!Tables, DocumentTx
<1>8. ASSUME NEW w \in Worker, Papers!ReadStudent(w) PROVE Kept
    BY <1>1, <1>8 DEF Papers!ReadStudent, Papers!Tables, DocumentTx
<1>9. ASSUME NEW w \in Worker, Papers!RevokeCard(w) PROVE Kept
    <2>1. Papers!Live(v6, "active") \in SUBSET Nat
        BY DEF Papers!Live
    <2> QED
        BY <1>1, <1>9, <2>1 DEF Papers!RevokeCard, Papers!Tables, DocumentTx
<1>10. ASSUME NEW w \in Worker, Papers!Abort(w) PROVE Kept
    BY <1>1, <1>10 DEF Papers!Abort, Papers!Ends, Papers!Tables, DocumentTx
<1>11. CASE Papers!UpdateStudent
    BY <1>1, <1>11 DEF Papers!UpdateStudent, Papers!Tables
<1>12. CASE Papers!RecordResult \/ Papers!MoneyMoves
    BY <1>1, <1>12 DEF Papers!RecordResult, Papers!MoneyMoves, Papers!Tables
<1>13. CASE Papers!DayPasses
    BY <1>1, <1>13 DEF Papers!DayPasses, Papers!Tables
<1>14. CASE UNCHANGED Papers!vars
    BY <1>1, <1>14 DEF Papers!vars
<1> QED
    BY <1>2, <1>3, <1>4, <1>5, <1>6, <1>7, <1>8, <1>9, <1>10, <1>11, <1>12, <1>13, <1>14
    DEF Papers!Next

AtDocumentsInv == AtDocuments => DocumentsInv

LEMMA DocumentsStay ==
    /\ OfficeInit => AtDocumentsInv
    /\ AtDocumentsInv /\ [OfficeNext]_office => AtDocumentsInv'
    /\ AtDocumentsInv /\ [OfficeNext]_office
          => [part = "documents" => Papers!OneVerifies' /\ Papers!AnswersOnlyWorsen]_office
<1>1. OfficeInit => AtDocumentsInv
    <2> SUFFICES ASSUME OfficeInit, AtDocuments PROVE DocumentsInv
        BY DEF AtDocumentsInv
    <2>1. Papers!Init
        BY DEF OfficeInit, AtDocuments
    <2>2. /\ v1 \in [name : Thing, active : BOOLEAN] /\ v7 = 1
          /\ v5 = <<>> /\ v6 = <<>> /\ v8 = [w \in Worker |-> Papers!Idle]
        BY <2>1 DEF Papers!Init
    <2>3. /\ v5 \in Seq(Papers!Certificate) /\ v6 \in Seq(Papers!StudentCard)
          /\ DOMAIN v5 = {} /\ DOMAIN v6 = {}
        BY <2>2
    <2>4. v8 \in [Worker -> DocumentTx]
        BY <2>2 DEF DocumentTx
    <2> QED
        BY <2>2, <2>3, <2>4 DEF DocumentsInv, DocumentTypes
<1>2. ASSUME AtDocumentsInv, [OfficeNext]_office, AtDocuments \/ AtDocuments'
      PROVE  AtDocuments /\ DocumentsInv /\ [Papers!Next]_(Papers!vars)
    BY <1>2 DEF AtDocumentsInv, AtDocuments, OfficeNext, office, Papers!vars
<1>3. ASSUME AtDocumentsInv, [OfficeNext]_office PROVE AtDocumentsInv'
    BY <1>2, <1>3, DocumentSteps DEF AtDocumentsInv
<1>4. DocumentsInv' => Papers!OneVerifies'
    BY LiveOnes, PTL
<1>5. ASSUME AtDocumentsInv, [OfficeNext]_office, AtDocuments
      PROVE  Papers!OneVerifies' /\ Papers!AnswersOnlyWorsen
    BY <1>2, <1>4, <1>5, DocumentSteps
<1> QED
    BY <1>1, <1>3, <1>5 DEF AtDocuments

(* One certificate of an enrollment and one card of a student verify, and  *)
(* what a scan says only changes from valid to expired to revoked, however *)
(* issuing, replacing and revoking meet (the certificates, student-cards   *)
(* and verification services), for any number of clerks and documents.     *)
THEOREM DocumentsStayTrue == OfficeSpec => DocumentsAreTrue
BY DocumentsStay, PTL DEF OfficeSpec, DocumentsAreTrue

-----------------------------------------------------------------------------
(* Settings that are changed as a whole. *)
AtSettings == part = "settings"

Courses == Thing \cup {Guest}
Graph   == [Courses -> SUBSET Courses]
Size    == Switches!Cardinality(Courses)

LEMMA CoursesAreFinite == IsFiniteSet(Courses) /\ Size = Cardinality(Courses) /\ Size \in Nat
<1>1. IsFiniteSet(Courses)
    BY TableAssumption, FS_AddElement DEF Courses
<1>2. Size = Cardinality(Courses)
    BY DEF Size, Switches!Cardinality, Cardinality
<1> QED
    BY <1>1, <1>2, FS_CardinalityType

(* The function by which Needed goes from course to course. *)
Walk(h, graph, ids) ==
    h = [n \in 0..Size |-> IF n = 0 THEN ids
                           ELSE h[n - 1] \cup UNION {graph[c] : c \in h[n - 1]}]

LEMMA WalkExists ==
    ASSUME NEW graph \in Graph, NEW ids \in SUBSET Courses
    PROVE  \E h \in [0..Size -> SUBSET Courses] : Walk(h, graph, ids)
<1> DEFINE Next1(s) == s \cup UNION {graph[c] : c \in s}
           Right(h, n) == /\ h \in [0..Size -> SUBSET Courses]
                          /\ \A k \in 0..Size : k <= n =>
                                 h[k] = IF k = 0 THEN ids ELSE Next1(h[k - 1])
           N == {n \in Nat : ~ \E h : Right(h, n)}
<1>1. \A s \in SUBSET Courses : Next1(s) \in SUBSET Courses
    BY DEF Graph
<1>2. Size \in Nat
    BY CoursesAreFinite
<1> HIDE DEF Next1
<1>3. \E h : Right(h, 0)
    <2> DEFINE h == [n \in 0..Size |-> ids]
    <2>1. Right(h, 0)
        BY <1>2
    <2> QED
        BY <2>1
<1>4. ASSUME NEW n \in Nat, NEW h, Right(h, n)
      PROVE  \E g : Right(g, n + 1)
    <2> DEFINE g == [k \in 0..Size |-> IF k = n + 1 THEN Next1(h[n]) ELSE h[k]]
    <2>1. g \in [0..Size -> SUBSET Courses]
        BY <1>1, <1>2, <1>4
    <2>2. ASSUME NEW k \in 0..Size, k <= n + 1
          PROVE  g[k] = IF k = 0 THEN ids ELSE Next1(g[k - 1])
        BY <1>2, <1>4, <2>2
    <2> HIDE DEF g
    <2> QED
        BY <2>1, <2>2
<1>5. \E h : Right(h, Size)
    <2> SUFFICES ASSUME ~ \E h : Right(h, Size) PROVE FALSE
        OBVIOUS
    <2> HIDE DEF Right
    <2>1. N # {} /\ N \in SUBSET Nat
        BY <1>2
    <2>2. PICK m \in N : \A n \in N : m <= n
        BY <2>1, LeastNat
    <2>3. m # 0
        BY <1>3
    <2>4. m - 1 \in Nat /\ m - 1 \notin N /\ (m - 1) + 1 = m
        BY <2>2, <2>3
    <2> QED
        BY <1>4, <2>4
<1>6. PICK h : Right(h, Size)
    BY <1>5
<1>7. Walk(h, graph, ids)
    <2>1. h = [n \in 0..Size |-> h[n]]
        BY <1>6
    <2>2. \A n \in 0..Size : h[n] = IF n = 0 THEN ids ELSE Next1(h[n - 1])
        BY <1>2, <1>6
    <2> QED
        BY <2>1, <2>2 DEF Walk, Next1
<1> QED
    BY <1>6, <1>7

(* One that is right starts from the given courses, grows, and ends with   *)
(* those that are needed.                                                  *)
LEMMA NeededIsWalked ==
    ASSUME NEW graph \in Graph, NEW ids \in SUBSET Courses
    PROVE  \E h \in [0..Size -> SUBSET Courses] :
               /\ h[0] = ids /\ Switches!Needed(graph, ids) = h[Size]
               /\ \A n \in 1..Size : h[n] = h[n - 1] \cup UNION {graph[c] : c \in h[n - 1]}
<1> DEFINE g == CHOOSE h : Walk(h, graph, ids)
<1>1. Switches!Needed(graph, ids) = g[Size]
    BY DEF Switches!Needed, Walk, Size, Courses
<1>2. PICK walk \in [0..Size -> SUBSET Courses] : Walk(walk, graph, ids)
    BY WalkExists
<1>3. Walk(g, graph, ids)
    BY <1>2
<1> HIDE DEF g
<1>s. Size \in Nat
    BY CoursesAreFinite
<1>4. /\ g = [n \in 0..Size |-> g[n]] /\ g[0] = ids
      /\ \A n \in 1..Size : g[n] = g[n - 1] \cup UNION {graph[c] : c \in g[n - 1]}
    <2> DEFINE f == [n \in 0..Size |-> IF n = 0 THEN ids
                                       ELSE g[n - 1] \cup UNION {graph[c] : c \in g[n - 1]}]
    <2>1. g = f
        BY <1>3 DEF Walk
    <2>2. f = [n \in 0..Size |-> f[n]]
        OBVIOUS
    <2>3. f[0] = ids
        BY <1>s
    <2>4. \A n \in 1..Size : f[n] = g[n - 1] \cup UNION {graph[c] : c \in g[n - 1]}
        BY <1>s
    <2> HIDE DEF f
    <2> QED
        BY <2>1, <2>2, <2>3, <2>4
<1>5. \A n \in 0..Size : g[n] \in SUBSET Courses
    <2> SUFFICES ASSUME NEW n \in 0..Size, g[n] \notin SUBSET Courses PROVE FALSE
        OBVIOUS
    <2> DEFINE N == {k \in 0..Size : g[k] \notin SUBSET Courses}
    <2>1. PICK m \in N : \A k \in N : m <= k
        <3>1. N # {} /\ N \in SUBSET Nat
            BY <1>s
        <3> HIDE DEF N
        <3> QED
            BY <3>1, LeastNat
    <2>2. m \in 1..Size
        BY <1>4, <1>s
    <2>3. m - 1 \notin N /\ m - 1 \in 0..Size
        BY <1>s, <2>1, <2>2
    <2>4. g[m - 1] \in SUBSET Courses
        BY <2>3
    <2>5. g[m] \in SUBSET Courses
        <3>1. g[m] = g[m - 1] \cup UNION {graph[c] : c \in g[m - 1]}
            BY <1>4, <2>2
        <3>2. \A c \in g[m - 1] : graph[c] \in SUBSET Courses
            BY <2>4 DEF Graph
        <3> QED
            BY <2>4, <3>1, <3>2
    <2> QED
        BY <2>5
<1> QED
    BY <1>1, <1>4, <1>5

Closed(graph, courses) == \A c \in courses : graph[c] \subseteq courses

(* What holds of a length and, from each to the next, goes on holding.     *)
LEMMA Upwards ==
    ASSUME NEW a \in 0..Size, NEW P, a \in P,
           \A n \in a..(Size - 1) : n \in P => n + 1 \in P
    PROVE  a..Size \subseteq P
<1> DEFINE N == {n \in a..Size : n \notin P}
<1>s. Size \in Nat
    BY CoursesAreFinite
<1>1. SUFFICES ASSUME N # {} PROVE FALSE
    OBVIOUS
<1>2. N \in SUBSET Nat
    BY <1>s
<1>3. PICK m \in N : \A n \in N : m <= n
    <2> HIDE DEF N
    <2> QED
        BY <1>1, <1>2, LeastNat
<1>4. m # a /\ m - 1 \in a..(Size - 1) /\ m - 1 \notin N
    BY <1>s, <1>3
<1> QED
    BY <1>4, <1>s

(* Needed courses stay within any courses that need no others.             *)
LEMMA NeededWithin ==
    ASSUME NEW graph \in Graph, NEW courses \in SUBSET Courses, Closed(graph, courses),
           NEW ids \in SUBSET courses
    PROVE  Switches!Needed(graph, ids) \subseteq courses
<1>1. PICK h \in [0..Size -> SUBSET Courses] :
          /\ h[0] = ids /\ Switches!Needed(graph, ids) = h[Size]
          /\ \A n \in 1..Size : h[n] = h[n - 1] \cup UNION {graph[c] : c \in h[n - 1]}
    <2> ids \in SUBSET Courses
        OBVIOUS
    <2> QED
        BY NeededIsWalked, SMTT(30)
<1> DEFINE P == {n \in 0..Size : h[n] \subseteq courses}
<1>s. Size \in Nat
    BY CoursesAreFinite
<1>2. 0 \in P
    BY <1>1, <1>s
<1>3. ASSUME NEW n \in 0..(Size - 1), n \in P PROVE n + 1 \in P
    <2>1. h[n + 1] = h[n] \cup UNION {graph[c] : c \in h[n]}
        BY <1>1, <1>s
    <2> QED
        BY <1>3, <1>s, <2>1 DEF Closed
<1>4. 0..Size \subseteq P
    <2> HIDE DEF P
    <2> QED
        BY <1>2, <1>3, <1>s, Upwards
<1> QED
    BY <1>1, <1>4, <1>s

(* They need no others: either a step of the walk adds no course, and no   *)
(* later one does, or every step adds one and all are needed at the end.   *)
LEMMA NeededIsClosed ==
    ASSUME NEW graph \in Graph, NEW ids \in SUBSET Courses
    PROVE  LET needed == Switches!Needed(graph, ids)
           IN  needed \in SUBSET Courses /\ ids \subseteq needed /\ Closed(graph, needed)
<1>1. PICK h \in [0..Size -> SUBSET Courses] :
          /\ h[0] = ids /\ Switches!Needed(graph, ids) = h[Size]
          /\ \A n \in 1..Size : h[n] = h[n - 1] \cup UNION {graph[c] : c \in h[n - 1]}
    BY NeededIsWalked, ZenonT(30)
<1>s. Size \in Nat /\ 0 \in 0..Size
    BY CoursesAreFinite
<1>n. ASSUME NEW n \in 0..(Size - 1)
      PROVE  h[n + 1] = h[n] \cup UNION {graph[c] : c \in h[n]}
    <2>1. n + 1 \in 1..Size /\ (n + 1) - 1 = n
        BY <1>s
    <2> QED
        BY <1>1, <2>1
<1>2. h[Size] \in SUBSET Courses
    BY <1>s
<1>3. ids \subseteq h[Size]
    <2> DEFINE P == {n \in 0..Size : ids \subseteq h[n]}
    <2>1. 0 \in P /\ \A n \in 0..(Size - 1) : n \in P => n + 1 \in P
        BY <1>1, <1>s, <1>n
    <2>2. 0..Size \subseteq P
        <3> HIDE DEF P
        <3> QED
            BY <1>s, <2>1, Upwards
    <2> QED
        BY <1>s, <2>2
<1>4. ASSUME NEW a \in 0..(Size - 1), h[a + 1] = h[a]
      PROVE  Closed(graph, h[Size])
    <2> DEFINE P == {n \in 0..Size : h[n] = h[a]}
    <2>1. \A n \in a..(Size - 1) : n \in P => n + 1 \in P
        <3>1. ASSUME NEW n \in a..(Size - 1), h[n] = h[a] PROVE h[n + 1] = h[a]
            <4>1. n \in 0..(Size - 1)
                BY <1>s
            <4>2. h[n + 1] = h[n] \cup UNION {graph[c] : c \in h[n]}
                BY <1>n, <4>1
            <4>3. h[a + 1] = h[a] \cup UNION {graph[c] : c \in h[a]}
                BY <1>n
            <4> QED
                BY <1>4, <3>1, <4>2, <4>3
        <3> QED
            BY <1>s, <3>1
    <2>2. a \in P /\ a \in 0..Size
        BY <1>s
    <2>3. a..Size \subseteq P
        <3> HIDE DEF P
        <3> QED
            BY <2>1, <2>2, Upwards
    <2>4. h[Size] = h[a] /\ UNION {graph[c] : c \in h[a]} \subseteq h[a]
        BY <1>n, <1>s, <1>4, <2>3
    <2> QED
        BY <2>4 DEF Closed
<1>5. ASSUME \A n \in 0..(Size - 1) : h[n + 1] # h[n]
      PROVE  Closed(graph, h[Size])
    <2> DEFINE P == {n \in 0..Size : Cardinality(h[n]) >= n}
    <2>1. ASSUME NEW n \in 0..Size PROVE IsFiniteSet(h[n]) /\ Cardinality(h[n]) \in Nat
        BY CoursesAreFinite, FS_Subset, FS_CardinalityType
    <2>2. ASSUME NEW n \in 0..(Size - 1), n \in P PROVE n + 1 \in P
        <3>1. h[n] \subseteq h[n + 1] /\ h[n] # h[n + 1] /\ n \in 0..Size /\ n + 1 \in 0..Size
            BY <1>5, <1>n, <1>s
        <3>2. /\ Cardinality(h[n]) <= Cardinality(h[n + 1])
              /\ Cardinality(h[n]) # Cardinality(h[n + 1])
            BY <2>1, <3>1, FS_Subset
        <3> QED
            BY <2>1, <2>2, <3>1, <3>2
    <2>3. 0 \in P
        BY <1>s, <2>1
    <2>4. 0..Size \subseteq P
        <3> HIDE DEF P
        <3> QED
            BY <1>s, <2>2, <2>3, Upwards
    <2>5. Cardinality(h[Size]) >= Size /\ Size \in 0..Size
        BY <1>s, <2>4
    <2>6. h[Size] = Courses
        BY <1>2, <1>s, <2>1, <2>5, CoursesAreFinite, FS_Subset
    <2> QED
        BY <2>6 DEF Closed, Graph
<1> QED
    BY <1>1, <1>2, <1>3, <1>4, <1>5

Acyclic(graph) == \A c \in Courses : c \notin Switches!Needed(graph, graph[c])

(* A course that its new prerequisites do not need closes no circle.       *)
LEMMA NoCircleCloses ==
    ASSUME NEW graph \in Graph, Acyclic(graph), NEW course \in Courses,
           NEW ids \in SUBSET Courses, course \notin Switches!Needed(graph, ids)
    PROVE  Acyclic([graph EXCEPT ![course] = ids])
<1> DEFINE newer == [graph EXCEPT ![course] = ids]
           K == Switches!Needed(graph, ids)
<1>1. /\ newer \in Graph /\ newer[course] = ids
      /\ \A c \in Courses : c # course => newer[c] = graph[c]
    BY DEF Graph
<1>2. K \in SUBSET Courses /\ ids \subseteq K /\ Closed(graph, K) /\ course \notin K
    BY NeededIsClosed
<1> HIDE DEF newer, K
<1>3. ASSUME NEW d \in Courses, NEW within \in SUBSET Courses, Closed(newer, within),
             newer[d] \subseteq within, d \notin within
      PROVE  d \notin Switches!Needed(newer, newer[d])
    BY <1>1, <1>3, NeededWithin
<1>4. Closed(newer, K)
    BY <1>1, <1>2 DEF Closed
<1>5. course \notin Switches!Needed(newer, newer[course])
    BY <1>1, <1>2, <1>3, <1>4
<1>6. ASSUME NEW d \in Courses, d # course
      PROVE  d \notin Switches!Needed(newer, newer[d])
    <2> DEFINE L == Switches!Needed(graph, graph[d])
    <2>1. graph[d] \in SUBSET Courses
        BY DEF Graph
    <2>2. L \in SUBSET Courses /\ graph[d] \subseteq L /\ Closed(graph, L) /\ d \notin L
        BY <2>1, NeededIsClosed DEF Acyclic
    <2> HIDE DEF L
    <2>3. newer[d] = graph[d]
        BY <1>1, <1>6
    <2>4. CASE course \notin L
        <3>1. Closed(newer, L)
            BY <1>1, <2>2, <2>4 DEF Closed
        <3> QED
            BY <1>3, <2>2, <2>3, <3>1
    <2>5. CASE course \in L /\ d \notin K
        <3>1. Closed(newer, L \cup K)
            BY <1>1, <1>2, <2>2 DEF Closed
        <3> QED
            BY <1>2, <1>3, <2>2, <2>3, <2>5, <3>1
    <2>6. CASE course \in L /\ d \in K
        <3>1. Closed(newer, L \cap K)
            BY <1>1, <1>2, <2>2 DEF Closed
        <3>2. graph[d] \subseteq K
            BY <1>2, <2>6 DEF Closed
        <3> QED
            BY <1>2, <1>3, <2>2, <2>3, <3>1, <3>2
    <2> QED
        BY <2>4, <2>5, <2>6
<1> QED
    BY <1>5, <1>6 DEF Acyclic, newer

(* Nobody else holds the page's lock.                                      *)
OneLocks == \A w, x \in Worker : v9[w].step = "locked" /\ v9[x].step = "locked" => w = x

(* Whoever holds the lock of a page finds there what was checked under it. *)
SwitchInv ==
    /\ v9 \in [Worker -> [step : {"idle"}]
                         \cup [step : {"asked", "locked"}, key : Switches!Module, on : BOOLEAN]]
    /\ OneLocks
    /\ \A w \in Worker : v9[w].step = "locked" => Switches!MayBe(v9[w].key, v9[w].on)

(* A row of the institution that somebody opened is the one there is, if    *)
(* their versions are the same.                                            *)
InstitutionRow == [by : {"nobody", "admin", "setup"}, version : Nat, setUps : {0, 1}]

SetupInv ==
    /\ v9 \in [Worker -> [step : {"idle"}]
                         \cup [step : {"asked", "locked"}, preset : SUBSET Other,
                               custom : SUBSET Other]
                         \cup [step : {"open"}, seen : InstitutionRow]]
    /\ OneLocks
    /\ \A w \in Worker : v9[w].step = "locked" => v5.setUps = 0
    /\ \A w \in Worker : v9[w].step = "open" =>
          /\ v9[w].seen.version <= v5.version
          /\ v9[w].seen.version = v5.version => v9[w].seen = v5

CoursesInv ==
    /\ v9 \in [Worker -> [step : {"idle"}]
                         \cup [step : {"asked", "locked"}, course : Courses,
                               ids : SUBSET Courses, seen : Nat]]
    /\ OneLocks
    /\ \A w \in Worker : v9[w].step = "locked"
                            => v9[w].course \notin Switches!Needed(v3, v9[w].ids)

SettingsTypes ==
    /\ v2 \in SUBSET Switches!Module
    /\ v3 \in Graph
    /\ v4 \in [Courses -> Nat]
    /\ v5 \in InstitutionRow
    /\ v6 \in [Other -> {"nobody", "admin", "preset", "custom"}]

SettingsInv ==
    /\ SettingsTypes
    /\ \A key \in v2 : Switches!MODULES[key] \subseteq v2
    /\ Acyclic(v3)
    /\ v1 = "modules" => SwitchInv
    /\ v1 = "setup" => SetupInv
    /\ v1 = "prerequisites" => CoursesInv

(* The modules page. *)
LEMMA SwitchSteps ==
    ASSUME SettingsInv, v1 = "modules", Switches!Next
    PROVE  SettingsInv' /\ Switches!KeepsWhatWasMade
<1> USE DEF Switches!Goes, Switches!Idle, SettingsTypes
<1>1. SwitchInv /\ SettingsTypes /\ v1' = v1 /\ UNCHANGED <<v3, v4, v5, v6>>
    BY DEF SettingsInv, Switches!Next, Switches!Asking, Switches!AskToSwitch, Switches!AskToSetUp,
           Switches!AskToRename, Switches!AskPrerequisites, Switches!Begin, Switches!CheckSwitch,
           Switches!Take, Switches!CommitSwitch, Switches!Commit, Switches!LockInstitution,
           Switches!CommitSetup, Switches!createDepartment, Switches!StartDelete,
           Switches!FinishDelete, Switches!CommitRename, Switches!LockProgram,
           Switches!CommitPrerequisites, Switches!updateCourse, Switches!Abort,
           Switches!OpenInstitution, Switches!updateInstitution
<1> DEFINE Kept == /\ v2' \in SUBSET Switches!Module
                   /\ \A key \in v2' : Switches!MODULES[key] \subseteq v2'
                   /\ SwitchInv'
<1>2. ASSUME NEW w \in Worker, NEW key \in Switches!Module, NEW on \in BOOLEAN,
             Switches!AskToSwitch(w, key, on)
      PROVE  Kept
    BY <1>1, <1>2 DEF Switches!AskToSwitch, Switches!Begin, SwitchInv, OneLocks, SettingsInv,
                      Switches!MayBe
<1>3. ASSUME NEW w \in Worker, Switches!CheckSwitch(w) PROVE Kept
    BY <1>1, <1>3 DEF Switches!CheckSwitch, Switches!LockFree, Switches!Take, SwitchInv, OneLocks,
                      SettingsInv, Switches!MayBe
<1>4. ASSUME NEW w \in Worker, Switches!CommitSwitch(w) PROVE Kept
    <2>1. v9[w].step = "locked" /\ v9[w].key \in Switches!Module
          /\ Switches!MayBe(v9[w].key, v9[w].on)
        BY <1>1, <1>4 DEF Switches!CommitSwitch, SwitchInv
    <2>2. v2' = IF v9[w].on THEN v2 \cup {v9[w].key} ELSE v2 \ {v9[w].key}
        BY <1>4 DEF Switches!CommitSwitch
    <2>3. \A key \in v2' : Switches!MODULES[key] \subseteq v2'
        BY <2>1, <2>2 DEF SettingsInv, Switches!MayBe
    <2>4. v9' = [v9 EXCEPT ![w] = [step |-> "idle"]]
        BY <1>4 DEF Switches!CommitSwitch, Switches!Commit
    <2>5. \A x \in Worker : v9'[x].step = "locked" => FALSE
        BY <1>1, <2>1, <2>4 DEF SwitchInv, OneLocks
    <2>6. SwitchInv'
        BY <1>1, <2>4, <2>5 DEF SwitchInv, OneLocks
    <2> QED
        BY <1>1, <2>1, <2>2, <2>3, <2>6
<1>5. ASSUME NEW w \in Worker, Switches!Abort(w) PROVE Kept
    BY <1>1, <1>5 DEF Switches!Abort, SwitchInv, OneLocks, SettingsInv, Switches!MayBe
<1>6. Kept
    BY <1>2, <1>3, <1>4, <1>5 DEF Switches!Next, Switches!Asking, Switches!AskToSetUp,
           Switches!AskToRename, Switches!AskPrerequisites, Switches!LockInstitution,
           Switches!CommitSetup, Switches!createDepartment, Switches!StartDelete,
           Switches!FinishDelete, Switches!CommitRename, Switches!LockProgram,
           Switches!CommitPrerequisites, Switches!updateCourse, Switches!OpenInstitution,
           Switches!updateInstitution
<1> QED
    BY <1>1, <1>6 DEF SettingsInv, Switches!KeepsWhatWasMade, Switches!InstitutionIsSeen

(* The set-up. *)
LEMMA SetupSteps ==
    ASSUME SettingsInv, v1 = "setup", Switches!Next
    PROVE  SettingsInv' /\ Switches!KeepsWhatWasMade
<1> USE DEF Switches!Goes, Switches!Idle, SettingsTypes
<1>1. SetupInv /\ SettingsTypes /\ v1' = v1 /\ UNCHANGED <<v2, v3, v4>>
    BY DEF SettingsInv, Switches!Next, Switches!Asking, Switches!AskToSwitch, Switches!AskToSetUp,
           Switches!AskToRename, Switches!AskPrerequisites, Switches!Begin, Switches!CheckSwitch,
           Switches!Take, Switches!CommitSwitch, Switches!Commit, Switches!LockInstitution,
           Switches!CommitSetup, Switches!createDepartment, Switches!StartDelete,
           Switches!FinishDelete, Switches!CommitRename, Switches!LockProgram,
           Switches!CommitPrerequisites, Switches!updateCourse, Switches!Abort,
           Switches!OpenInstitution, Switches!updateInstitution
<1>u. v5.version \in Nat /\ v5.setUps \in {0, 1}
    BY <1>1 DEF InstitutionRow
<1> DEFINE Kept == /\ v5' \in InstitutionRow
                   /\ v6' \in [Other -> {"nobody", "admin", "preset", "custom"}]
                   /\ SetupInv'
                   /\ \A d \in Other : v6[d] # "nobody" => v6'[d] = v6[d]
                   /\ Switches!InstitutionIsSeen
(* The next version of the row leaves those that somebody opened behind.    *)
<1>n. ASSUME NEW w \in Worker, v9' = [v9 EXCEPT ![w] = [step |-> "idle"]],
             v5' \in InstitutionRow, v5'.version = v5.version + 1,
             \A x \in Worker : v9[x].step # "locked" \/ x = w
      PROVE  SetupInv'
    <2>1. v9'[w].step = "idle" /\ \A x \in Worker \ {w} : v9'[x] = v9[x]
        BY <1>1, <1>n DEF SetupInv
    <2>2. \A x \in Worker : v9'[x].step # "locked"
        BY <1>n, <2>1
    <2>3. ASSUME NEW x \in Worker, v9'[x].step = "open"
          PROVE  v9'[x].seen.version <= v5'.version /\ v9'[x].seen.version # v5'.version
        <3>1. x # w /\ v9'[x] = v9[x] /\ v9[x].step = "open"
            BY <2>1, <2>3
        <3>2. v9[x].seen.version <= v5.version /\ v9[x].seen.version \in Nat
            BY <1>1, <3>1 DEF SetupInv, InstitutionRow
        <3> QED
            BY <1>u, <1>n, <3>1, <3>2
    <2>4. v9' \in [Worker -> [step : {"idle"}]
                         \cup [step : {"asked", "locked"}, preset : SUBSET Other,
                               custom : SUBSET Other]
                         \cup [step : {"open"}, seen : InstitutionRow]]
        BY <1>1, <1>n DEF SetupInv
    <2>5. OneLocks'
        BY <2>2 DEF OneLocks
    <2> QED
        BY <2>2, <2>3, <2>4, <2>5 DEF SetupInv, InstitutionRow
<1>2. ASSUME NEW w \in Worker, NEW preset \in SUBSET Other, NEW custom \in SUBSET Other,
             Switches!AskToSetUp(w, preset, custom)
      PROVE  Kept
    BY <1>1, <1>2 DEF Switches!AskToSetUp, Switches!Begin, SetupInv, OneLocks,
                      Switches!InstitutionIsSeen, InstitutionRow
<1>3. ASSUME NEW w \in Worker, Switches!LockInstitution(w) PROVE Kept
    BY <1>1, <1>3 DEF Switches!LockInstitution, Switches!LockFree, Switches!Take, SetupInv,
                      OneLocks, Switches!InstitutionIsSeen, InstitutionRow
<1>4. ASSUME NEW w \in Worker, Switches!CommitSetup(w) PROVE Kept
    <2>1. /\ v9[w].step = "locked" /\ v5.setUps = 0
          /\ v5' = [by |-> "setup", version |-> v5.version + 1, setUps |-> v5.setUps + 1]
          /\ v9' = [v9 EXCEPT ![w] = [step |-> "idle"]]
          /\ v6' = [d \in Other |-> IF v6[d] = "nobody" THEN Switches!Chosen(w, d) ELSE v6[d]]
        BY <1>1, <1>4 DEF Switches!CommitSetup, Switches!Commit, SetupInv
    <2>2. \A d \in Other : Switches!Chosen(w, d) \in {"nobody", "preset", "custom"}
        BY DEF Switches!Chosen
    <2>3. v5' \in InstitutionRow /\ v5'.version = v5.version + 1 /\ v5'.setUps = 1
        BY <1>u, <2>1 DEF InstitutionRow
    <2>4. SetupInv'
        BY <1>1, <1>n, <2>1, <2>3 DEF SetupInv, OneLocks
    <2> QED
        BY <1>1, <2>1, <2>2, <2>3, <2>4 DEF Switches!InstitutionIsSeen
<1>5. ASSUME NEW w \in Worker, Switches!Abort(w) PROVE Kept
    BY <1>1, <1>5 DEF Switches!Abort, SetupInv, OneLocks, Switches!InstitutionIsSeen,
                      InstitutionRow
<1>6. ASSUME NEW d \in Other, Switches!createDepartment(d) PROVE Kept
    BY <1>1, <1>6 DEF Switches!createDepartment, SetupInv, OneLocks, Switches!InstitutionIsSeen,
                      InstitutionRow
<1>7. ASSUME NEW w \in Worker, Switches!OpenInstitution(w) PROVE Kept
    <2>1. /\ v9[w].step = "idle" /\ UNCHANGED <<v5, v6>>
          /\ v9' = [v9 EXCEPT ![w] = [step |-> "open", seen |-> v5]]
        BY <1>7 DEF Switches!OpenInstitution, Switches!Begin
    <2>2. SetupInv'
        BY <1>1, <1>u, <2>1 DEF SetupInv, OneLocks, InstitutionRow
    <2> QED
        BY <1>1, <2>1, <2>2 DEF Switches!InstitutionIsSeen, InstitutionRow
<1>8. ASSUME NEW w \in Worker, Switches!updateInstitution(w) PROVE Kept
    <2>1. /\ v9[w].step = "open" /\ \A x \in Worker : v9[x].step # "locked"
          /\ v9[w].seen.version = v5.version /\ v6' = v6
          /\ v5' = [v5 EXCEPT !.by = "admin", !.version = @ + 1]
          /\ v9' = [v9 EXCEPT ![w] = [step |-> "idle"]]
        BY <1>8 DEF Switches!updateInstitution, Switches!LockFree, Switches!Commit
    <2>2. v9[w].seen = v5
        BY <1>1, <2>1 DEF SetupInv
    <2>3. v5' \in InstitutionRow /\ v5'.version = v5.version + 1
        <3>1. v5 \in InstitutionRow
            BY <1>1
        <3>2. v5 = [by |-> v5.by, version |-> v5.version, setUps |-> v5.setUps]
            BY <3>1 DEF InstitutionRow
        <3>3. v5' = [by |-> "admin", version |-> v5.version + 1, setUps |-> v5.setUps]
            BY <2>1, <3>2
        <3> QED
            BY <1>u, <3>3 DEF InstitutionRow
    <2>4. SetupInv'
        BY <1>n, <2>1, <2>3
    <2>5. v9'[w] = Switches!Idle
        BY <1>1, <2>1 DEF SetupInv
    <2> QED
        BY <1>1, <2>1, <2>2, <2>3, <2>4, <2>5 DEF Switches!InstitutionIsSeen
<1>9. Kept
    BY <1>2, <1>3, <1>4, <1>5, <1>6, <1>7, <1>8 DEF Switches!Next, Switches!Asking,
           Switches!AskToSwitch, Switches!AskToRename, Switches!AskPrerequisites,
           Switches!CheckSwitch, Switches!CommitSwitch, Switches!StartDelete,
           Switches!FinishDelete, Switches!CommitRename, Switches!LockProgram,
           Switches!CommitPrerequisites, Switches!updateCourse
<1> QED
    BY <1>1, <1>9 DEF SettingsInv, Switches!KeepsWhatWasMade

(* The prerequisites of a program's courses. *)
LEMMA CourseSteps ==
    ASSUME SettingsInv, v1 = "prerequisites", Switches!Next
    PROVE  SettingsInv' /\ Switches!KeepsWhatWasMade
<1> USE DEF Switches!Goes, Switches!Idle, SettingsTypes
<1>1. CoursesInv /\ SettingsTypes /\ v1' = v1 /\ UNCHANGED <<v2, v5, v6>>
    BY DEF SettingsInv, Switches!Next, Switches!Asking, Switches!AskToSwitch, Switches!AskToSetUp,
           Switches!AskToRename, Switches!AskPrerequisites, Switches!Begin, Switches!CheckSwitch,
           Switches!Take, Switches!CommitSwitch, Switches!Commit, Switches!LockInstitution,
           Switches!CommitSetup, Switches!createDepartment, Switches!StartDelete,
           Switches!FinishDelete, Switches!CommitRename, Switches!LockProgram,
           Switches!CommitPrerequisites, Switches!updateCourse, Switches!Abort,
           Switches!OpenInstitution, Switches!updateInstitution
<1> DEFINE Kept == /\ v3' \in Graph /\ Acyclic(v3')
                   /\ v4' \in [Courses -> Nat]
                   /\ CoursesInv'
<1>2. ASSUME NEW w \in Worker, NEW c \in Courses, NEW ids \in SUBSET Courses,
             Switches!AskPrerequisites(w, c, ids)
      PROVE  Kept
    BY <1>1, <1>2 DEF Switches!AskPrerequisites, Switches!Begin, CoursesInv, OneLocks, SettingsInv
<1>3. ASSUME NEW w \in Worker, Switches!LockProgram(w) PROVE Kept
    BY <1>1, <1>3 DEF Switches!LockProgram, Switches!LockFree, Switches!Take, CoursesInv, OneLocks,
                      SettingsInv, Switches!wouldCreateCycle
<1>4. ASSUME NEW w \in Worker, Switches!CommitPrerequisites(w) PROVE Kept
    <2>1. /\ v9[w].step = "locked" /\ v9' = [v9 EXCEPT ![w] = [step |-> "idle"]]
          /\ v3' = [v3 EXCEPT ![v9[w].course] = v9[w].ids]
          /\ v4' = [v4 EXCEPT ![v9[w].course] = @ + 1]
        BY <1>4 DEF Switches!CommitPrerequisites, Switches!Commit
    <2>2. /\ v9[w].course \in Courses /\ v9[w].ids \in SUBSET Courses
          /\ v9[w].course \notin Switches!Needed(v3, v9[w].ids)
        BY <1>1, <2>1 DEF CoursesInv
    <2>3. Acyclic(v3') /\ v3' \in Graph /\ v4' \in [Courses -> Nat]
        <3>1. Acyclic(v3) /\ v3 \in Graph
            BY <1>1 DEF SettingsInv
        <3>2. Acyclic(v3')
            BY <2>1, <2>2, <3>1, NoCircleCloses
        <3> QED
            BY <1>1, <2>1, <2>2, <3>2 DEF Graph
    <2>4. CoursesInv'
        BY <1>1, <2>1 DEF CoursesInv, OneLocks
    <2> QED
        BY <2>3, <2>4
<1>5. ASSUME NEW w \in Worker, Switches!Abort(w) PROVE Kept
    BY <1>1, <1>5 DEF Switches!Abort, CoursesInv, OneLocks, SettingsInv
<1>6. ASSUME NEW c \in Courses, Switches!updateCourse(c) PROVE Kept
    BY <1>1, <1>6 DEF Switches!updateCourse, CoursesInv, OneLocks, SettingsInv
<1>7. Kept
    BY <1>2, <1>3, <1>4, <1>5, <1>6 DEF Switches!Next, Switches!Asking, Switches!AskToSwitch,
           Switches!AskToSetUp, Switches!AskToRename, Switches!CheckSwitch,
           Switches!CommitSwitch, Switches!LockInstitution, Switches!CommitSetup,
           Switches!createDepartment, Switches!StartDelete, Switches!FinishDelete,
           Switches!CommitRename, Switches!OpenInstitution, Switches!updateInstitution, Courses
<1> QED
    BY <1>1, <1>7 DEF SettingsInv, Switches!KeepsWhatWasMade, Switches!InstitutionIsSeen

LEMMA SettingsSteps ==
    ASSUME SettingsInv, v1 \in Switches!Page, [Switches!Next]_(Switches!vars)
    PROVE  SettingsInv' /\ v1' = v1 /\ Switches!KeepsWhatWasMade
<1>1. v1' = v1
    BY DEF Switches!vars, Switches!Next, Switches!Asking, Switches!AskToSwitch,
           Switches!AskToSetUp, Switches!AskToRename, Switches!AskPrerequisites, Switches!Begin,
           Switches!CheckSwitch, Switches!Take, Switches!CommitSwitch, Switches!Commit,
           Switches!LockInstitution, Switches!CommitSetup, Switches!createDepartment,
           Switches!StartDelete, Switches!FinishDelete, Switches!CommitRename,
           Switches!LockProgram, Switches!CommitPrerequisites, Switches!updateCourse,
           Switches!Abort, Switches!OpenInstitution, Switches!updateInstitution
<1>2. CASE v1 = "terminology" /\ Switches!Next
    <2>1. UNCHANGED <<v1, v2, v3, v4, v5, v6>>
        BY <1>2 DEF Switches!Next, Switches!Asking, Switches!AskToSwitch,
           Switches!AskToSetUp, Switches!AskToRename, Switches!AskPrerequisites, Switches!Begin,
           Switches!CheckSwitch, Switches!Take, Switches!CommitSwitch, Switches!Commit,
           Switches!LockInstitution, Switches!CommitSetup, Switches!createDepartment,
           Switches!StartDelete, Switches!FinishDelete, Switches!CommitRename,
           Switches!LockProgram, Switches!CommitPrerequisites, Switches!updateCourse,
           Switches!Abort, Switches!OpenInstitution, Switches!updateInstitution
    <2> QED
        BY <1>2, <2>1 DEF SettingsInv, SettingsTypes, Switches!KeepsWhatWasMade,
                          Switches!InstitutionIsSeen
<1>3. CASE UNCHANGED Switches!vars
    BY <1>3 DEF Switches!vars, SettingsInv, SettingsTypes, Switches!KeepsWhatWasMade,
                Switches!InstitutionIsSeen, SwitchInv, SetupInv, CoursesInv, OneLocks, Switches!MayBe
<1> QED
    BY <1>1, <1>2, <1>3, SwitchSteps, SetupSteps, CourseSteps DEF Switches!Page

AtSettingsInv == AtSettings => SettingsInv /\ v1 \in Switches!Page

LEMMA SettingsStay ==
    /\ OfficeInit => AtSettingsInv
    /\ AtSettingsInv /\ [OfficeNext]_office => AtSettingsInv'
    /\ AtSettingsInv /\ [OfficeNext]_office
          => [part = "settings" => Switches!SettingsConsistent'
                                     /\ Switches!KeepsWhatWasMade]_office
<1>1. OfficeInit => AtSettingsInv
    <2> SUFFICES ASSUME OfficeInit, AtSettings PROVE SettingsInv /\ v1 \in Switches!Page
        BY DEF AtSettingsInv
    <2>1. /\ v1 \in Switches!Page /\ v2 = Switches!Module /\ v3 = [c \in Courses |-> {}]
          /\ v4 = [c \in Courses |-> 1]
          /\ v5 = [by |-> "nobody", version |-> 1, setUps |-> 0] /\ v6 = [d \in Other |-> "nobody"]
          /\ v9 = [w \in Worker |-> [step |-> "idle"]]
        BY DEF OfficeInit, AtSettings, Switches!Init, Switches!Idle, Courses
    <2>2. SettingsTypes
        BY <2>1 DEF SettingsTypes, Graph, InstitutionRow
    <2>3. ASSUME NEW c \in Courses PROVE c \notin Switches!Needed(v3, v3[c])
        <3>1. Closed(v3, {}) /\ v3[c] = {} /\ v3 \in Graph
            BY <2>1 DEF Closed, Graph
        <3> QED
            BY <3>1, NeededWithin
    <2>4. \A key \in v2 : Switches!MODULES[key] \subseteq v2
        BY <2>1 DEF Switches!Module, Switches!MODULES
    <2>5. SwitchInv /\ SetupInv /\ CoursesInv
        BY <2>1 DEF SwitchInv, SetupInv, CoursesInv, OneLocks
    <2> QED
        BY <2>1, <2>2, <2>3, <2>4, <2>5 DEF SettingsInv, Acyclic
<1>2. ASSUME AtSettingsInv, [OfficeNext]_office, AtSettings \/ AtSettings'
      PROVE  /\ AtSettings /\ SettingsInv /\ v1 \in Switches!Page
             /\ [Switches!Next]_(Switches!vars)
    BY <1>2 DEF AtSettingsInv, AtSettings, OfficeNext, office, Switches!vars
<1>3. ASSUME AtSettingsInv, [OfficeNext]_office PROVE AtSettingsInv'
    BY <1>2, <1>3, SettingsSteps DEF AtSettingsInv
<1>4. ASSUME SettingsInv' PROVE Switches!SettingsConsistent'
    BY <1>4 DEF SettingsInv, SettingsTypes, Switches!SettingsConsistent, Acyclic, Courses,
                InstitutionRow
<1>5. ASSUME AtSettingsInv, [OfficeNext]_office, AtSettings
      PROVE  Switches!SettingsConsistent' /\ Switches!KeepsWhatWasMade
    BY <1>2, <1>4, <1>5, SettingsSteps
<1> QED
    BY <1>1, <1>3, <1>5 DEF AtSettings

(* Modules have the modules they require, no course needs itself through   *)
(* its prerequisites, the set-up is completed once and keeps the           *)
(* departments there are, and whoever else changes the institution's row   *)
(* had seen it as it was (the modules, setup, institution and courses      *)
(* services), for any number of people at work and any finite number of    *)
(* courses.                                                                *)
THEOREM SettingsStayConsistent == OfficeSpec => SettingsHold
BY SettingsStay, PTL DEF OfficeSpec, SettingsHold

-----------------------------------------------------------------------------
(* Configuration records. *)
AtRecords == part = "records"

(* Columns of a row that are replaced by those of another leave a row.     *)
LEMMA MixedStay ==
    ASSUME NEW t \in Config!Table, NEW content \in Config!Holding[t],
           NEW other \in Config!Holding[t], NEW names
    PROVE  [f \in DOMAIN content |-> IF f \in names THEN other[f] ELSE content[f]]
              \in Config!Holding[t]
<1> USE DEF Config!Holding, Config!Table
<1>1. CASE t = "branch"
    BY <1>1 DEF Config!Branch
<1>2. CASE t = "department"
    BY <1>2 DEF Config!Department
<1>3. CASE t = "descriptor"
    BY <1>3 DEF Config!Descriptor
<1>4. CASE t = "custom_field"
    BY <1>4 DEF Config!CustomField
<1>5. CASE t = "institution"
    BY <1>5 DEF Config!Institution
<1>6. CASE t = "program"
    BY <1>6 DEF Config!Program
<1>7. CASE t = "course"
    BY <1>7 DEF Config!Course
<1>8. CASE t = "academic_year"
    BY <1>8 DEF Config!AcademicYear
<1>9. CASE t = "intake"
    BY <1>9 DEF Config!Intake
<1>10. CASE t = "holiday"
    BY <1>10 DEF Config!Holiday
<1>11. CASE t = "shift"
    BY <1>11 DEF Config!Shift
<1>12. CASE t = "room"
    BY <1>12 DEF Config!Room
<1>13. CASE t = "fee_structure"
    BY <1>13 DEF Config!FeeStructure
<1>14. CASE t = "payment_plan"
    BY <1>14 DEF Config!PaymentPlan
<1> QED
    BY <1>1, <1>2, <1>3, <1>4, <1>5, <1>6, <1>7, <1>8, <1>9, <1>10, <1>11, <1>12, <1>13, <1>14

LEMMA SameColumns ==
    ASSUME NEW t \in Config!Table, NEW content \in Config!Holding[t], NEW other \in Config!Holding[t]
    PROVE  DOMAIN content = DOMAIN other
<1> USE DEF Config!Holding, Config!Table
<1>1. CASE t = "branch"
    BY <1>1 DEF Config!Branch
<1>2. CASE t = "department"
    BY <1>2 DEF Config!Department
<1>3. CASE t = "descriptor"
    BY <1>3 DEF Config!Descriptor
<1>4. CASE t = "custom_field"
    BY <1>4 DEF Config!CustomField
<1>5. CASE t = "institution"
    BY <1>5 DEF Config!Institution
<1>6. CASE t = "program"
    BY <1>6 DEF Config!Program
<1>7. CASE t = "course"
    BY <1>7 DEF Config!Course
<1>8. CASE t = "academic_year"
    BY <1>8 DEF Config!AcademicYear
<1>9. CASE t = "intake"
    BY <1>9 DEF Config!Intake
<1>10. CASE t = "holiday"
    BY <1>10 DEF Config!Holiday
<1>11. CASE t = "shift"
    BY <1>11 DEF Config!Shift
<1>12. CASE t = "room"
    BY <1>12 DEF Config!Room
<1>13. CASE t = "fee_structure"
    BY <1>13 DEF Config!FeeStructure
<1>14. CASE t = "payment_plan"
    BY <1>14 DEF Config!PaymentPlan
<1> QED
    BY <1>1, <1>2, <1>3, <1>4, <1>5, <1>6, <1>7, <1>8, <1>9, <1>10, <1>11, <1>12, <1>13, <1>14

(* An input gives some of the columns of a row that could be.              *)
Gives(t, input) ==
    \E other \in Config!Holding[t] :
        DOMAIN input \subseteq DOMAIN other /\ \A f \in DOMAIN input : input[f] = other[f]

LEMMA InputsGive ==
    ASSUME NEW t \in Config!Table, NEW input \in Config!Inputs[t]
    PROVE  /\ Gives(t, input)
           /\ t = "custom_field" => "fieldType" \notin DOMAIN input
           /\ t = "institution" => "setupCompleted" \notin DOMAIN input
           /\ t = "academic_year" => input \in Config!AcademicYear
<1>1. CASE t = "academic_year"
    <2>1. input \in Config!AcademicYear
        BY <1>1 DEF Config!Inputs
    <2> QED
        BY <1>1, <2>1 DEF Gives, Config!Holding
<1>2. CASE t # "academic_year"
    <2>1. input \in UNION {{[f \in names |-> c[f]] : names \in SUBSET Config!Changeable(t, c)}
                             : c \in Config!Holding[t]}
        BY <1>2 DEF Config!Inputs
    <2>2. PICK c \in Config!Holding[t] :
              \E names \in SUBSET Config!Changeable(t, c) : input = [f \in names |-> c[f]]
        BY <2>1
    <2>3. PICK names \in SUBSET Config!Changeable(t, c) : input = [f \in names |-> c[f]]
        BY <2>2
    <2>4. DOMAIN input = names /\ \A f \in names : input[f] = c[f]
        BY <2>3
    <2>5. /\ names \subseteq DOMAIN c /\ (t = "custom_field" => "fieldType" \notin names)
          /\ t = "institution" => "setupCompleted" \notin names
        BY DEF Config!Changeable
    <2> QED
        BY <1>2, <2>4, <2>5 DEF Gives
<1> QED
    BY <1>1, <1>2

LEMMA MergedStay ==
    ASSUME NEW t \in Config!Table, NEW content \in Config!Holding[t], NEW input, Gives(t, input)
    PROVE  /\ Config!Merged(input, content) \in Config!Holding[t]
           /\ \A f \in DOMAIN input : Config!Merged(input, content)[f] = input[f]
           /\ \A f \in DOMAIN content \ DOMAIN input : Config!Merged(input, content)[f] = content[f]
<1>1. PICK other \in Config!Holding[t] :
          DOMAIN input \subseteq DOMAIN other /\ \A f \in DOMAIN input : input[f] = other[f]
    BY DEF Gives
<1>2. DOMAIN other = DOMAIN content
    BY SameColumns
<1>3. Config!Merged(input, content)
         = [f \in DOMAIN content |-> IF f \in DOMAIN input THEN other[f] ELSE content[f]]
    BY <1>1, <1>2 DEF Config!Merged
<1>4. Config!Merged(input, content) \in Config!Holding[t]
    BY <1>3, MixedStay
<1> QED
    BY <1>1, <1>2, <1>3, <1>4

(* A row, what somebody has open, and no row.                              *)
RowOf  == [version : Nat \ {0}, is : Config!Holding[v1]]
FormOf == [step : {"open", "checked"}, row : Thing, seen : RowOf, input : Config!Inputs[v1]]

RecordTypes ==
    /\ v1 \in Config!Table
    /\ v2 \in [Thing -> RowOf \cup {Config!Absent, Config!Gone}]
    /\ v3 \in [Worker -> FormOf \cup {Config!Closed}]
    /\ v4 \in SUBSET Worker

(* A version tells what the row held when somebody opened it.              *)
SeenThen(w) ==
    LET row == v2[v3[w].row]
    IN  /\ row # Config!Absent
        /\ row \in RowOf => v3[w].seen.version <= row.version
        /\ row \in RowOf /\ row.version = v3[w].seen.version
               => Config!Watched(row.is) = Config!Watched(v3[w].seen.is)

Current(w) ==
    v3[w].step = "checked" /\ v2[v3[w].row] \in RowOf
        /\ v2[v3[w].row].version = v3[w].seen.version

FormsHold ==
    \A w \in Worker : v3[w] # Config!Closed =>
        /\ SeenThen(w)
        /\ Config!ParsesAs(v3[w].input)
        /\ Current(w) => Config!Sound(Config!Merged(v3[w].input, v2[v3[w].row].is))

(* Of those about to deactivate an active branch, one has the lock.        *)
LockHolds ==
    /\ \A w, x \in v4 : w = x
    /\ v1 = "branch" =>
          \A w \in Worker : v3[w] # Config!Closed /\ Current(w) /\ Config!Deactivates(w)
              => w \in v4 /\ Config!ActiveOthers(v3[w].row) # {}

RecordsInv == RecordTypes /\ FormsHold /\ LockHolds /\ Config!RowsAreSound

LEMMA Kinds ==
    /\ \A row \in RowOf : Config!IsRow(row) /\ row.version \in Nat /\ row.version > 0
    /\ ~Config!IsRow(Config!Absent) /\ ~Config!IsRow(Config!Gone)
    /\ Config!Absent.version = 0 /\ Config!Gone.version = 0
    /\ Config!Absent # Config!Gone /\ Config!Absent \notin RowOf /\ Config!Gone \notin RowOf
    /\ Config!Closed \notin FormOf
<1>1. DOMAIN Config!Absent = {"version"} /\ DOMAIN Config!Gone = {"version", "deleted"}
    BY DEF Config!Absent, Config!Gone
<1>2. \A row \in RowOf : DOMAIN row = {"version", "is"} /\ row.version \in Nat /\ row.version > 0
    BY DEF RowOf
<1>3. DOMAIN Config!Closed = {"step"} /\ \A f \in FormOf : DOMAIN f = {"step", "row", "seen", "input"}
    BY DEF Config!Closed, FormOf
<1>4. Config!Absent.version = 0 /\ Config!Gone.version = 0
    BY DEF Config!Absent, Config!Gone
<1> QED
    BY <1>1, <1>2, <1>3, <1>4 DEF Config!IsRow

(* A row is left as it is, but for not being the default plan any more.    *)
Cleared(row) == [row EXCEPT !.is.isDefault = FALSE]
Quiet(row, newer) ==
    newer = row \/ (v1 = "payment_plan" /\ row \in RowOf /\ newer = Cleared(row))

LEMMA ClearedShows ==
    ASSUME v1 = "payment_plan", NEW row \in RowOf
    PROVE  /\ Cleared(row) \in RowOf /\ Cleared(row).version = row.version
           /\ Config!Watched(Cleared(row).is) = Config!Watched(row.is)
<1>1. row.is \in Config!PaymentPlan /\ row = [version |-> row.version, is |-> row.is]
    BY DEF RowOf, Config!Holding
<1> DEFINE plan == [row.is EXCEPT !.isDefault = FALSE]
<1>2. /\ plan \in Config!PaymentPlan /\ DOMAIN plan = DOMAIN row.is
      /\ \A f \in DOMAIN plan \ {"isDefault"} : plan[f] = row.is[f]
    BY <1>1 DEF Config!PaymentPlan
<1>3. Cleared(row) = [version |-> row.version, is |-> plan]
    <2>1. DOMAIN Cleared(row) = {"version", "is"}
        BY <1>1 DEF Cleared
    <2>2. Cleared(row).version = row.version
        BY <1>1 DEF Cleared
    <2>3. Cleared(row).is = plan
        BY <1>1 DEF Cleared
    <2>4. Cleared(row) = [f \in {"version", "is"} |-> Cleared(row)[f]]
        BY <1>1, <2>1 DEF Cleared
    <2> QED
        BY <2>1, <2>2, <2>3, <2>4
<1> HIDE DEF plan
<1>4. Config!Watched(plan) = Config!Watched(row.is)
    BY <1>2 DEF Config!Watched
<1> QED
    BY <1>2, <1>3, <1>4 DEF RowOf, Config!Holding

LEMMA QuietShows ==
    ASSUME NEW row \in RowOf \cup {Config!Absent, Config!Gone}, NEW newer, Quiet(row, newer)
    PROVE  /\ newer \in RowOf \cup {Config!Absent, Config!Gone}
           /\ newer \in RowOf <=> row \in RowOf
           /\ row \notin RowOf => newer = row
           /\ row \in RowOf => newer.version = row.version
           /\ row \in RowOf => Config!Watched(newer.is) = Config!Watched(row.is)
           /\ row \in RowOf /\ newer # row => \A content : Config!Sound(content)
BY ClearedShows DEF Quiet, Config!Sound

(* What is known of a form goes on being true while its row rests, when    *)
(* the row is deleted and when it gets its next version.                   *)
LEMMA FormStays ==
    ASSUME RecordTypes, v1' = v1, NEW w \in Worker, v3[w] # Config!Closed, v3'[w] = v3[w],
           SeenThen(w), Current(w) => Config!Sound(Config!Merged(v3[w].input, v2[v3[w].row].is)),
           LET row == v2[v3[w].row] newer == v2'[v3[w].row]
           IN  \/ Quiet(row, newer)
               \/ newer = Config!Gone
               \/ row \in RowOf /\ newer \in RowOf /\ newer.version = row.version + 1
    PROVE  /\ SeenThen(w)'
           /\ Current(w)' => Config!Sound(Config!Merged(v3[w].input, v2[v3[w].row].is))'
           /\ Current(w)' => Current(w) /\ Quiet(v2[v3[w].row], v2'[v3[w].row])
<1> DEFINE r == v3[w].row
<1>1. /\ v3[w] \in FormOf /\ r \in Thing /\ v3[w].seen.version \in Nat
      /\ v2[r] \in RowOf \cup {Config!Absent, Config!Gone} /\ RowOf' = RowOf
    BY DEF RecordTypes, FormOf, RowOf
<1>2. CASE Quiet(v2[r], v2'[r])
    <2>1. /\ v2'[r] \in RowOf <=> v2[r] \in RowOf
          /\ v2[r] \notin RowOf => v2'[r] = v2[r]
          /\ v2[r] \in RowOf => v2'[r].version = v2[r].version
          /\ v2[r] \in RowOf => Config!Watched(v2'[r].is) = Config!Watched(v2[r].is)
          /\ v2[r] \in RowOf /\ v2'[r] # v2[r] => \A content : Config!Sound(content)
        BY <1>1, <1>2, QuietShows
    <2>2. SeenThen(w)'
        BY <1>1, <2>1, Kinds DEF SeenThen
    <2>3. Current(w)' => Current(w)
        BY <1>1, <2>1 DEF Current
    <2>4. \A content : Config!Sound(content)' <=> Config!Sound(content)
        BY DEF Config!Sound, Config!checkOptions, Config!registrationWindowOk
    <2>5. Current(w)' => Config!Sound(Config!Merged(v3'[w].input, v2'[v3'[w].row].is))
        BY <1>1, <2>1, <2>3
    <2> QED
        BY <1>2, <2>2, <2>3, <2>4, <2>5
<1>3. CASE v2'[r] = Config!Gone
    BY <1>1, <1>3, Kinds DEF SeenThen, Current
<1>4. CASE v2[r] \in RowOf /\ v2'[r] \in RowOf /\ v2'[r].version = v2[r].version + 1
    <2>1. /\ v2'[r].version \in Nat /\ v2'[r].version > v3[w].seen.version
          /\ v2'[r] # Config!Absent
        BY <1>1, <1>4, Kinds DEF SeenThen
    <2>2. v3[w].seen.version <= v2'[r].version /\ v3[w].seen.version # v2'[r].version
        BY <1>1, <2>1
    <2> QED
        BY <1>1, <1>4, <2>1, <2>2 DEF SeenThen, Current
<1> QED
    BY <1>2, <1>3, <1>4

LEMMA ClearDefaultRests ==
    ASSUME RecordTypes, v1 = "payment_plan"
    PROVE  \A r \in Thing : Quiet(v2[r], Config!clearDefault(v2)[r])
<1> SUFFICES ASSUME NEW r \in Thing PROVE Quiet(v2[r], Config!clearDefault(v2)[r])
    OBVIOUS
<1>1. v2[r] \in RowOf \cup {Config!Absent, Config!Gone}
    BY DEF RecordTypes
<1>2. Config!clearDefault(v2)[r] = IF Config!IsRow(v2[r]) /\ v2[r].is.isDefault
                                   THEN Cleared(v2[r]) ELSE v2[r]
    BY DEF Config!clearDefault, Cleared
<1> QED
    BY <1>1, <1>2, Kinds DEF Quiet

LEMMA ColumnsGive ==
    ASSUME v1 \in Config!Table, NEW input \in Config!Inputs[v1]
    PROVE  Gives(v1, Config!Columns(input)) /\ (v1 # "payment_plan" => Config!Columns(input) = input)
<1>1. Gives(v1, input)
    BY InputsGive
<1>2. CASE v1 = "payment_plan" /\ "isActive" \in DOMAIN input /\ ~input.isActive
    <2>1. PICK other \in Config!PaymentPlan :
              DOMAIN input \subseteq DOMAIN other /\ \A f \in DOMAIN input : input[f] = other[f]
        BY <1>1, <1>2 DEF Gives, Config!Holding
    <2> DEFINE plan == [other EXCEPT !.isDefault = FALSE]
               no  == [isDefault |-> FALSE]
               set == Config!Merged(no, input)
    <2>2. Config!Columns(input) = set
        BY <1>2 DEF Config!Columns
    <2>n. DOMAIN no = {"isDefault"} /\ no["isDefault"] = FALSE
        OBVIOUS
    <2> HIDE DEF no
    <2>3. /\ DOMAIN set = {"isDefault"} \cup DOMAIN input
          /\ \A f \in DOMAIN set : set[f] = IF f = "isDefault" THEN FALSE ELSE input[f]
        BY <2>n DEF Config!Merged
    <2>4. /\ plan \in Config!PaymentPlan /\ DOMAIN plan = DOMAIN other
          /\ "isDefault" \in DOMAIN other
          /\ \A f \in DOMAIN other : plan[f] = IF f = "isDefault" THEN FALSE ELSE other[f]
        BY DEF Config!PaymentPlan
    <2> HIDE DEF plan, set
    <2>5. DOMAIN set \subseteq DOMAIN plan /\ \A f \in DOMAIN set : set[f] = plan[f]
        BY <2>1, <2>3, <2>4
    <2> QED
        BY <1>2, <2>2, <2>4, <2>5 DEF Gives, Config!Holding
<1>3. CASE ~ (v1 = "payment_plan" /\ "isActive" \in DOMAIN input /\ ~input.isActive)
    <2>1. Config!Columns(input) = input
        BY <1>3 DEF Config!Columns
    <2> QED
        BY <1>1, <2>1
<1> QED
    BY <1>2, <1>3

(* A new row. *)
LEMMA Inserts ==
    ASSUME RecordTypes, v1' = v1, NEW content \in Config!Holding[v1],
           Config!AsCreated(content), Config!Insert(content)
    PROVE  \E r \in Thing :
              /\ v2[r] = Config!Absent /\ v2'[r] \in RowOf /\ Config!Sound(v2'[r].is)
              /\ \A s \in Thing : s # r => Quiet(v2[s], v2'[s])
              /\ v2' = [s \in Thing |-> v2'[s]]
<1> DEFINE others == IF v1 = "payment_plan" /\ content.isDefault
                     THEN Config!clearDefault(v2) ELSE v2
<1>1. PICK r \in Thing : v2[r] = Config!Absent /\ v2' = [others EXCEPT ![r] = Config!New(content)]
    BY DEF Config!Insert
<1>2. others = [s \in Thing |-> others[s]] /\ \A s \in Thing : Quiet(v2[s], others[s])
    BY ClearDefaultRests DEF Quiet, RecordTypes, Config!clearDefault
<1> HIDE DEF others
<1>3. /\ v2'[r] = Config!New(content) /\ v2' = [s \in Thing |-> v2'[s]]
      /\ \A s \in Thing : s # r => v2'[s] = others[s]
    BY <1>1, <1>2
<1>4. Config!New(content) \in RowOf /\ Config!New(content).is = content
    BY DEF Config!New, RowOf
<1>5. Config!Sound(content)
    <2>1. CASE v1 = "shift"
        BY <2>1 DEF Config!AsCreated, Config!ParsesAs, Config!Sound, Config!endsAfterStart,
                    Config!Holding, Config!Shift
    <2>2. CASE v1 = "academic_year"
        BY <2>2 DEF Config!AsCreated, Config!ParsesAs, Config!Sound, Config!afterStart,
                    Config!Holding, Config!AcademicYear
    <2>3. CASE v1 = "intake"
        BY <2>3 DEF Config!AsCreated, Config!ParsesAs, Config!Sound
    <2>4. CASE v1 = "custom_field"
        BY <2>4 DEF Config!AsCreated, Config!Sound
    <2> QED
        BY <2>1, <2>2, <2>3, <2>4 DEF Config!Sound
<1> QED
    BY <1>1, <1>2, <1>3, <1>4, <1>5

(* A saved form. *)
LEMMA Saves ==
    ASSUME RecordTypes, FormsHold, v1' = v1, NEW w \in Worker, Config!Save(w)
    PROVE  LET r == v3[w].row
           IN  /\ v3[w] \in FormOf /\ Current(w)
               /\ v2'[r] \in RowOf /\ v2'[r].version = v2[r].version + 1
               /\ Config!Sound(v2'[r].is)
               /\ v1 \in {"branch", "institution"}
                     => v2'[r].is = Config!Merged(v3[w].input, v2[r].is)
               /\ \A s \in Thing : s # r => Quiet(v2[s], v2'[s])
               /\ v2' = [s \in Thing |-> v2'[s]]
<1> DEFINE r == v3[w].row
           input == v3[w].input
           others == IF v1 = "payment_plan" /\ "isDefault" \in DOMAIN input /\ input.isDefault
                     THEN Config!clearDefault(v2) ELSE v2
<1>1. /\ v3[w].step = "checked" /\ v2[r].version = v3[w].seen.version
      /\ v2' = [others EXCEPT ![r] = Config!Updated(others[r], input)]
    BY DEF Config!Save, Config!Settled
<1>2. v3[w] \in FormOf /\ v3[w] # Config!Closed
    BY <1>1 DEF RecordTypes, Config!Closed
<1>3. r \in Thing /\ v3[w].seen \in RowOf /\ input \in Config!Inputs[v1]
    BY <1>2 DEF FormOf
<1>4. v2[r] \in RowOf
    BY <1>1, <1>3, Kinds DEF RecordTypes
<1>5. Current(w)
    BY <1>1, <1>4 DEF Current
<1>6. others = [s \in Thing |-> others[s]] /\ \A s \in Thing : Quiet(v2[s], others[s])
    BY ClearDefaultRests DEF Quiet, RecordTypes, Config!clearDefault
<1>7. v1 # "payment_plan" => others = v2
    OBVIOUS
<1> HIDE DEF others
<1>8. /\ v2'[r] = Config!Updated(others[r], input) /\ v2' = [s \in Thing |-> v2'[s]]
      /\ \A s \in Thing : s # r => v2'[s] = others[s]
    BY <1>1, <1>3, <1>6
<1>9. others[r] \in RowOf /\ others[r].version = v2[r].version
    BY <1>3, <1>4, <1>6, QuietShows
<1>10. /\ Gives(v1, Config!Columns(input)) /\ v1 \in Config!Table
       /\ v1 # "payment_plan" => Config!Columns(input) = input
    BY <1>3, ColumnsGive DEF RecordTypes
<1>11. others[r].is \in Config!Holding[v1] /\ others[r].version \in Nat
    BY <1>9 DEF RowOf
<1>12. Config!Merged(Config!Columns(input), others[r].is) \in Config!Holding[v1]
    BY <1>10, <1>11, MergedStay
<1>13. /\ v2'[r].version = v2[r].version + 1
       /\ v2'[r].is = Config!Merged(Config!Columns(input), others[r].is)
       /\ v2'[r] \in RowOf
    BY <1>8, <1>9, <1>11, <1>12 DEF Config!Updated, RowOf
<1>14. Config!Sound(v2'[r].is)
    <2>1. CASE v1 = "payment_plan"
        BY <2>1 DEF Config!Sound
    <2>2. CASE v1 # "payment_plan"
        BY <1>2, <1>5, <1>7, <1>10, <1>13, <2>2 DEF FormsHold
    <2> QED
        BY <2>1, <2>2
<1>15. v1 \in {"branch", "institution"} => v2'[r].is = Config!Merged(input, v2[r].is)
    BY <1>7, <1>10, <1>13
<1> QED
    BY <1>2, <1>5, <1>6, <1>8, <1>13, <1>14, <1>15

(* What a step that changes one row, and lets the others rest, keeps.      *)
LEMMA RowsFollow ==
    ASSUME RecordTypes, Config!RowsAreSound, v1' = v1, NEW r \in Thing,
           v2' = [s \in Thing |-> v2'[s]], \A s \in Thing : s # r => Quiet(v2[s], v2'[s]),
           v2'[r] = Config!Gone \/ (v2'[r] \in RowOf /\ Config!Sound(v2'[r].is))
    PROVE  /\ v2' \in [Thing -> RowOf \cup {Config!Absent, Config!Gone}]'
           /\ Config!RowsAreSound'
           /\ \A s \in Thing : s # r /\ Config!IsRow(v2[s])
                 => Config!Watched(v2'[s].is) = Config!Watched(v2[s].is)
<1>1. RowOf' = RowOf /\ Config!Absent' = Config!Absent /\ Config!Gone' = Config!Gone
    BY DEF RowOf, Config!Absent, Config!Gone
<1>2. \A s \in Thing : v2[s] \in RowOf \cup {Config!Absent, Config!Gone}
    BY DEF RecordTypes
<1>3. \A s \in Thing : v2'[s] \in RowOf \cup {Config!Absent, Config!Gone}
    BY <1>2, QuietShows
<1>4. \A content : Config!Sound(content)' <=> Config!Sound(content)
    BY DEF Config!Sound, Config!checkOptions, Config!registrationWindowOk
<1>5. ASSUME NEW s \in Thing, Config!IsRow(v2'[s]) PROVE Config!Sound(v2'[s].is)
    <2>1. v2'[s] \in RowOf
        BY <1>3, <1>5, Kinds
    <2>2. CASE s = r
        BY <2>1, <2>2, Kinds
    <2>3. CASE s # r
        <3>1. v2[s] \in RowOf /\ (v2'[s] # v2[s] => \A content : Config!Sound(content))
            BY <1>2, <2>1, <2>3, QuietShows
        <3> QED
            BY <3>1, Kinds DEF Config!RowsAreSound, Config!Stored
    <2> QED
        BY <2>2, <2>3
<1>6. ASSUME NEW s \in Thing, s # r, Config!IsRow(v2[s])
      PROVE  Config!Watched(v2'[s].is) = Config!Watched(v2[s].is)
    BY <1>2, <1>6, Kinds, QuietShows
<1>7. Config!RowsAreSound'
    BY <1>4, <1>5 DEF Config!RowsAreSound, Config!Stored, Config!IsRow
<1> QED
    BY <1>1, <1>3, <1>6, <1>7

LEMMA CreateSteps ==
    ASSUME RecordsInv, Config!Creating
    PROVE  RecordsInv' /\ Config!EditsAreSafe
<1> USE DEF RecordsInv
<1>1. /\ UNCHANGED <<v1, v3, v4>>
      /\ \E content \in Config!Holding[v1] : Config!AsCreated(content) /\ Config!Insert(content)
    BY DEF Config!Creating, Config!Create, Config!createBranch, Config!createDepartment,
           Config!createDescriptor, Config!createField, Config!createProgram, Config!createCourse,
           Config!createYear, Config!createIntake, Config!createHoliday, Config!createShift,
           Config!createRoom, Config!createStructure, Config!createPlan
<1>2. PICK r \in Thing :
          /\ v2[r] = Config!Absent /\ v2'[r] \in RowOf /\ Config!Sound(v2'[r].is)
          /\ \A s \in Thing : s # r => Quiet(v2[s], v2'[s])
          /\ v2' = [s \in Thing |-> v2'[s]]
    BY <1>1, Inserts
<1>3. /\ v2' \in [Thing -> RowOf \cup {Config!Absent, Config!Gone}]'
      /\ Config!RowsAreSound'
      /\ \A s \in Thing : s # r /\ Config!IsRow(v2[s])
            => Config!Watched(v2'[s].is) = Config!Watched(v2[s].is)
    BY <1>1, <1>2, RowsFollow
<1>4. RecordTypes'
    BY <1>1, <1>3 DEF RecordTypes, FormOf, RowOf, Config!Closed
<1>5. ASSUME NEW w \in Worker, v3[w] # Config!Closed
      PROVE  /\ SeenThen(w)'
             /\ Current(w)' => Config!Sound(Config!Merged(v3[w].input, v2[v3[w].row].is))'
             /\ Current(w)' => Current(w) /\ Quiet(v2[v3[w].row], v2'[v3[w].row])
    <2>1. v3[w].row \in Thing
        BY <1>5 DEF RecordTypes, FormOf
    <2>2. Quiet(v2[v3[w].row], v2'[v3[w].row])
        BY <1>2, <1>5, <2>1 DEF FormsHold, SeenThen
    <2> QED
        BY <1>1, <1>5, <2>2, FormStays DEF FormsHold
<1>6. FormsHold'
    BY <1>1, <1>5 DEF FormsHold, Config!ParsesAs, Config!endsAfterStart, Config!afterStart,
                      Config!registrationWindowOk, Config!Closed
<1>7. v1 = "branch" => \A s \in Thing : Config!IsRow(v2[s]) => v2'[s] = v2[s]
    BY <1>2, Kinds DEF Quiet
<1>8. LockHolds'
    <2>1. SUFFICES ASSUME v1 = "branch", NEW w \in Worker, v3[w] # Config!Closed, Current(w)',
                          Config!Deactivates(w)'
                   PROVE  w \in v4 /\ Config!ActiveOthers(v3[w].row)' # {}
        BY <1>1 DEF LockHolds, Config!Closed
    <2>2. Current(w) /\ v2'[v3[w].row] = v2[v3[w].row]
        BY <1>5, <2>1 DEF Quiet
    <2>3. Config!Deactivates(w)
        BY <1>1, <2>1, <2>2 DEF Config!Deactivates, Config!Before
    <2>4. w \in v4 /\ Config!ActiveOthers(v3[w].row) # {}
        BY <2>1, <2>2, <2>3 DEF LockHolds
    <2>5. PICK s \in Thing : /\ Config!IsRow(v2[s]) /\ s # v3[w].row /\ v2[s].is.isActive
        BY <2>4 DEF Config!ActiveOthers, Config!Stored
    <2>6. s \in Config!ActiveOthers(v3[w].row)'
        BY <1>1, <1>7, <2>1, <2>5 DEF Config!ActiveOthers, Config!Stored, Config!IsRow
    <2> QED
        BY <2>4, <2>6
<1>9. Config!AuthorHadSeen
    BY <1>2, <1>3, Kinds DEF Config!AuthorHadSeen, Config!Stored
<1>10. Config!StaysSetUp
    BY <1>2, Kinds DEF Config!StaysSetUp, Config!IsSetUp, Config!Stored, Quiet
<1> QED
    BY <1>3, <1>4, <1>6, <1>7, <1>8, <1>9, <1>10
    DEF Config!EditsAreSafe, Config!SomeBranchActive

LEMMA DeleteSteps ==
    ASSUME RecordsInv, Config!deleteHoliday
    PROVE  RecordsInv' /\ Config!EditsAreSafe
<1> USE DEF RecordsInv
<1>1. v1' = v1 /\ v3' = v3 /\ v4' = v4 /\ v1 = "holiday"
    BY DEF Config!deleteHoliday
<1>2. PICK r \in Thing : v2' = [v2 EXCEPT ![r] = Config!Gone]
    BY DEF Config!deleteHoliday, Config!Stored
<1>3. /\ v2'[r] = Config!Gone /\ v2' = [s \in Thing |-> v2'[s]]
      /\ \A s \in Thing : s # r => v2'[s] = v2[s]
    BY <1>2 DEF RecordTypes
<1>4. /\ v2' \in [Thing -> RowOf \cup {Config!Absent, Config!Gone}]'
      /\ Config!RowsAreSound'
      /\ \A s \in Thing : s # r /\ Config!IsRow(v2[s])
            => Config!Watched(v2'[s].is) = Config!Watched(v2[s].is)
    <2>1. \A s \in Thing : s # r => Quiet(v2[s], v2'[s])
        BY <1>3 DEF Quiet
    <2> QED
        BY <1>1, <1>3, <2>1, RowsFollow
<1>5. RecordTypes'
    BY <1>1, <1>4 DEF RecordTypes, FormOf, RowOf, Config!Closed
<1>6. ASSUME NEW w \in Worker, v3[w] # Config!Closed
      PROVE  /\ SeenThen(w)'
             /\ Current(w)' => Config!Sound(Config!Merged(v3[w].input, v2[v3[w].row].is))'
    <2>1. v3[w].row \in Thing
        BY <1>6 DEF RecordTypes, FormOf
    <2>2. Quiet(v2[v3[w].row], v2'[v3[w].row]) \/ v2'[v3[w].row] = Config!Gone
        BY <1>3, <2>1 DEF Quiet
    <2> QED
        BY <1>1, <1>6, <2>2, FormStays DEF FormsHold
<1>7. FormsHold'
    BY <1>1, <1>6 DEF FormsHold, Config!ParsesAs, Config!endsAfterStart, Config!afterStart,
                      Config!registrationWindowOk, Config!Closed
<1>8. LockHolds'
    BY <1>1 DEF LockHolds
<1>9. Config!AuthorHadSeen
    BY <1>3, <1>4, Kinds DEF Config!AuthorHadSeen, Config!Stored
<1> QED
    BY <1>1, <1>4, <1>5, <1>7, <1>8, <1>9
    DEF Config!EditsAreSafe, Config!StaysSetUp, Config!IsSetUp

(* The set-up gives the institution's row its next version, whatever somebody *)
(* has open.                                                                  *)
LEMMA CompleteSteps ==
    ASSUME RecordsInv, Config!completeSetup
    PROVE  RecordsInv' /\ Config!EditsAreSafe
<1> USE DEF RecordsInv
<1>1. v1' = v1 /\ v3' = v3 /\ v4' = v4 /\ v1 = "institution"
    BY DEF Config!completeSetup
<1>2. PICK r \in Thing, content \in Config!Institution :
          /\ Config!IsRow(v2[r]) /\ ~v2[r].is.setupCompleted /\ content.setupCompleted
          /\ v2' = [v2 EXCEPT ![r] = [version |-> v2[r].version + 1, is |-> content]]
    BY DEF Config!completeSetup, Config!Stored
<1>3. v2[r] \in RowOf
    BY <1>2, Kinds DEF RecordTypes
<1>4. /\ v2'[r] = [version |-> v2[r].version + 1, is |-> content]
      /\ v2' = [s \in Thing |-> v2'[s]] /\ \A s \in Thing : s # r => v2'[s] = v2[s]
    BY <1>2 DEF RecordTypes
<1>5. v2'[r] \in RowOf /\ v2'[r].version = v2[r].version + 1 /\ v2'[r].is = content
    BY <1>1, <1>3, <1>4 DEF RowOf, Config!Holding
<1>6. /\ v2' \in [Thing -> RowOf \cup {Config!Absent, Config!Gone}]'
      /\ Config!RowsAreSound'
      /\ \A s \in Thing : s # r /\ Config!IsRow(v2[s])
            => Config!Watched(v2'[s].is) = Config!Watched(v2[s].is)
    <2>1. \A s \in Thing : s # r => Quiet(v2[s], v2'[s])
        BY <1>4 DEF Quiet
    <2>2. Config!Sound(v2'[r].is)
        BY <1>1 DEF Config!Sound
    <2> QED
        BY <1>1, <1>4, <1>5, <2>1, <2>2, RowsFollow
<1>7. RecordTypes'
    BY <1>1, <1>6 DEF RecordTypes, FormOf, RowOf, Config!Closed
<1>8. ASSUME NEW w \in Worker, v3[w] # Config!Closed
      PROVE  /\ SeenThen(w)'
             /\ Current(w)' => Config!Sound(Config!Merged(v3[w].input, v2[v3[w].row].is))'
    <2>1. v3[w].row \in Thing
        BY <1>8 DEF RecordTypes, FormOf
    <2>2. \/ Quiet(v2[v3[w].row], v2'[v3[w].row])
          \/ v2[r] \in RowOf /\ v2'[r] \in RowOf /\ v2'[r].version = v2[r].version + 1
                /\ v3[w].row = r
        BY <1>3, <1>4, <1>5, <2>1 DEF Quiet
    <2> QED
        BY <1>1, <1>8, <2>2, FormStays DEF FormsHold
<1>9. FormsHold'
    BY <1>1, <1>8 DEF FormsHold, Config!ParsesAs, Config!endsAfterStart, Config!afterStart,
                      Config!registrationWindowOk, Config!Closed
<1>10. LockHolds'
    BY <1>1 DEF LockHolds
<1>11. Config!AuthorHadSeen
    BY <1>1, <1>2, <1>5, <1>6 DEF Config!AuthorHadSeen, Config!Stored, Config!IsSetUp
<1>12. Config!StaysSetUp
    BY <1>2, <1>4 DEF Config!StaysSetUp, Config!IsSetUp, Config!Stored
<1> QED
    BY <1>1, <1>6, <1>7, <1>9, <1>10, <1>11, <1>12 DEF Config!EditsAreSafe

(* What was sent and the row it is for mean the same while neither changes. *)
LEMMA FormKept ==
    ASSUME NEW x \in Worker, v1' = v1, v2' = v2,
           v3'[x].input = v3[x].input, v3'[x].row = v3[x].row
    PROVE  /\ Config!ParsesAs(v3[x].input)' <=> Config!ParsesAs(v3[x].input)
           /\ Config!Sound(Config!Merged(v3[x].input, v2[v3[x].row].is))'
                 <=> Config!Sound(Config!Merged(v3[x].input, v2[v3[x].row].is))
<1> DEFINE input  == v3[x].input
           merged == Config!Merged(v3[x].input, v2[v3[x].row].is)
<1>1. input' = input
    OBVIOUS
<1>2. merged' = merged
    BY DEF Config!Merged
<1> HIDE DEF input, merged
<1>3. Config!ParsesAs(input)' <=> Config!ParsesAs(input)
    BY <1>1 DEF Config!ParsesAs, Config!endsAfterStart, Config!afterStart, Config!registrationWindowOk
<1>4. Config!Sound(merged)' <=> Config!Sound(merged)
    BY <1>2 DEF Config!Sound, Config!checkOptions, Config!registrationWindowOk
<1> QED
    BY <1>3, <1>4 DEF input, merged

LEMMA OpenSteps ==
    ASSUME RecordsInv, NEW w \in Worker, NEW r \in Thing, NEW input \in Config!Inputs[v1],
           Config!Open(w, r, input)
    PROVE  RecordsInv' /\ Config!EditsAreSafe
<1> USE DEF RecordsInv
<1>1. /\ UNCHANGED <<v1, v2, v4>>
      /\ v3' = [v3 EXCEPT ![w] = [step |-> "open", row |-> r, seen |-> v2[r], input |-> input]]
      /\ Config!IsRow(v2[r]) /\ Config!ParsesAs(input)
    BY DEF Config!Open, Config!Stored
<1>2. v2[r] \in RowOf
    BY <1>1, Kinds DEF RecordTypes
<1>3. [step |-> "open", row |-> r, seen |-> v2[r], input |-> input] \in FormOf
    BY <1>2 DEF FormOf
<1>4. RecordTypes'
    BY <1>1, <1>3 DEF RecordTypes, RowOf, FormOf, Config!Absent, Config!Gone, Config!Closed
<1>5. ~Current(w)' /\ SeenThen(w)' /\ Config!ParsesAs(v3[w].input)'
    <2>1. /\ v3'[w].step = "open" /\ v3'[w].row = r /\ v3'[w].seen = v2[r]
          /\ v3'[w].input = input
        BY <1>1 DEF RecordTypes
    <2>2. ~Current(w)'
        BY <2>1 DEF Current
    <2>3. SeenThen(w)'
        BY <1>1, <1>2, <2>1, Kinds DEF SeenThen, RowOf, Config!Absent, Config!Watched
    <2>4. Config!ParsesAs(v3[w].input)'
        BY <1>1, <2>1 DEF Config!ParsesAs, Config!endsAfterStart, Config!afterStart,
                          Config!registrationWindowOk
    <2> QED
        BY <2>2, <2>3, <2>4
<1>6. ASSUME NEW x \in Worker, x # w, v3'[x] # Config!Closed
      PROVE  /\ v3[x] # Config!Closed /\ (SeenThen(x)' <=> SeenThen(x))
             /\ (Current(x)' <=> Current(x)) /\ v3'[x] = v3[x]
    BY <1>1, <1>6 DEF SeenThen, Current, RecordTypes, RowOf, Config!Absent, Config!Watched
<1>7. FormsHold'
    <2>1. ASSUME NEW x \in Worker, v3'[x] # Config!Closed
          PROVE  /\ SeenThen(x)' /\ Config!ParsesAs(v3[x].input)'
                 /\ Current(x)' => Config!Sound(Config!Merged(v3[x].input, v2[v3[x].row].is))'
        <3>1. CASE x = w
            BY <1>5, <3>1
        <3>2. CASE x # w
            BY <1>1, <1>6, <2>1, <3>2, FormKept DEF FormsHold
        <3> QED
            BY <3>1, <3>2
    <2> QED
        BY <2>1 DEF FormsHold, Config!Closed
<1>8. LockHolds'
    <2>1. SUFFICES ASSUME v1 = "branch", NEW x \in Worker, v3'[x] # Config!Closed, Current(x)',
                          Config!Deactivates(x)'
                   PROVE  x \in v4 /\ Config!ActiveOthers(v3[x].row)' # {}
        BY <1>1 DEF LockHolds, Config!Closed
    <2>2. x # w
        BY <1>5, <2>1
    <2> QED
        BY <1>1, <1>6, <2>1, <2>2 DEF LockHolds, Config!Deactivates, Config!Before,
                                     Config!ActiveOthers, Config!Stored, Config!IsRow
<1>9. Config!RowsAreSound'
    BY <1>1 DEF Config!RowsAreSound, Config!Stored, Config!IsRow, Config!Sound,
                Config!checkOptions, Config!registrationWindowOk
<1> QED
    BY <1>1, <1>4, <1>7, <1>8, <1>9
    DEF Config!EditsAreSafe, Config!AuthorHadSeen, Config!StaysSetUp, Config!IsSetUp,
        Config!SomeBranchActive, Config!Stored

(* What the handler finds when the row is still the one that was opened.   *)
LEMMA ReadIsSound ==
    ASSUME RecordsInv, NEW w \in Worker, Config!Updating(w), v2[v3[w].row] \in RowOf
    PROVE  Config!Sound(Config!Merged(v3[w].input, v2[v3[w].row].is))
<1> DEFINE input   == v3[w].input
           content == v2[v3[w].row].is
           merged  == Config!Merged(input, content)
<1>1. /\ v3[w].step = "open"
      /\ v1 = "shift" => merged.endTime > merged.startTime
      /\ v1 = "intake" => Config!registrationWindowOk(merged)
      /\ v1 = "custom_field" /\ "options" \in DOMAIN input
            => Config!checkOptions(content.fieldType, input.options)
    BY DEF Config!Updating, Config!updateBranch, Config!updateDepartment,
           Config!updateDescriptor, Config!updateField, Config!updateInstitution,
           Config!updateProgram, Config!updateCourse, Config!updateYear, Config!updateIntake,
           Config!updateHoliday, Config!updateShift, Config!updateRoom, Config!updateStructure,
           Config!updatePlan, Config!Update, Config!Sending, Config!Before
<1>2. v3[w] \in FormOf /\ v3[w] # Config!Closed
    BY <1>1 DEF RecordsInv, RecordTypes, Config!Closed
<1>3. /\ input \in Config!Inputs[v1] /\ v3[w].row \in Thing /\ v1 \in Config!Table
      /\ content \in Config!Holding[v1] /\ Config!ParsesAs(input)
    BY <1>2 DEF FormOf, RowOf, RecordsInv, RecordTypes, FormsHold
<1>4. /\ Gives(v1, input)
      /\ v1 = "custom_field" => "fieldType" \notin DOMAIN input
      /\ v1 = "academic_year" => input \in Config!AcademicYear
    BY <1>3, InputsGive
<1>5. /\ merged \in Config!Holding[v1]
      /\ \A f \in DOMAIN input : merged[f] = input[f]
      /\ \A f \in DOMAIN content \ DOMAIN input : merged[f] = content[f]
    BY <1>3, <1>4, MergedStay
<1>6. CASE v1 = "shift"
    BY <1>1, <1>6 DEF Config!Sound
<1>7. CASE v1 = "intake"
    BY <1>1, <1>7 DEF Config!Sound
<1>8. CASE v1 = "custom_field"
    <2>1. "options" \in DOMAIN input => Config!checkOptions(content.fieldType, input.options)
        BY <1>1, <1>8
    <2>2. Config!checkOptions(content.fieldType, content.options)
        <3>1. Config!Sound(content)
            BY <1>3, Kinds DEF RecordsInv, Config!RowsAreSound, Config!Stored
        <3> QED
            BY <1>8, <3>1 DEF Config!Sound
    <2>3. DOMAIN content = {"key", "fieldType", "options"}
        BY <1>3, <1>8 DEF Config!Holding, Config!CustomField
    <2>4. /\ merged["fieldType"] = content["fieldType"]
          /\ merged["options"] = IF "options" \in DOMAIN input THEN input["options"]
                                 ELSE content["options"]
        BY <1>4, <1>5, <1>8, <2>3
    <2>5. Config!checkOptions(merged.fieldType, merged.options)
        BY <2>1, <2>2, <2>4
    <2> QED
        BY <1>8, <2>5 DEF Config!Sound
<1>9. CASE v1 = "academic_year"
    <2>1. input.endDate > input.startDate
        BY <1>3, <1>9 DEF Config!ParsesAs, Config!afterStart
    <2>2. merged["endDate"] = input["endDate"] /\ merged["startDate"] = input["startDate"]
        BY <1>4, <1>5, <1>9 DEF Config!AcademicYear
    <2> QED
        BY <1>9, <2>1, <2>2 DEF Config!Sound
<1> QED
    BY <1>6, <1>7, <1>8, <1>9 DEF Config!Sound

LEMMA UpdateSteps ==
    ASSUME RecordsInv, NEW w \in Worker, Config!Updating(w)
    PROVE  RecordsInv' /\ Config!EditsAreSafe
<1> USE DEF RecordsInv
<1>1. /\ UNCHANGED <<v1, v2>> /\ v3' = [v3 EXCEPT ![w].step = "checked"] /\ v3[w].step = "open"
      /\ \/ UNCHANGED v4 /\ (v1 = "branch" => ~Config!Deactivates(w))
         \/ v4 = {} /\ v4' = {w} /\ Config!ActiveOthers(v3[w].row) # {}
    BY DEF Config!Updating, Config!updateBranch, Config!updateDepartment,
           Config!updateDescriptor, Config!updateField, Config!updateInstitution,
           Config!updateProgram, Config!updateCourse, Config!updateYear, Config!updateIntake,
           Config!updateHoliday, Config!updateShift, Config!updateRoom, Config!updateStructure,
           Config!updatePlan, Config!Update, Config!Sending, Config!Read
<1>2. v3[w] \in FormOf /\ v3[w] # Config!Closed
    BY <1>1 DEF RecordTypes, Config!Closed
<1>3. /\ v3'[w] \in FormOf /\ v3'[w].row = v3[w].row /\ v3'[w].seen = v3[w].seen
      /\ v3'[w].input = v3[w].input
    BY <1>1, <1>2 DEF FormOf, RecordTypes
<1>4. RecordTypes'
    BY <1>1, <1>3 DEF RecordTypes, RowOf, FormOf, Config!Absent, Config!Gone, Config!Closed
<1>5. /\ SeenThen(w)' /\ Config!ParsesAs(v3[w].input)'
      /\ Current(w)' => Config!Sound(Config!Merged(v3[w].input, v2[v3[w].row].is))'
    <2>1. SeenThen(w)'
        BY <1>1, <1>2, <1>3 DEF FormsHold, SeenThen, RowOf, Config!Absent, Config!Watched
    <2>2. Config!ParsesAs(v3[w].input)'
        BY <1>1, <1>2, <1>3, FormKept DEF FormsHold
    <2>3. Current(w)' => v2[v3[w].row] \in RowOf
        BY <1>1, <1>3 DEF Current, RowOf
    <2>4. Config!Sound(Config!Merged(v3[w].input, v2[v3[w].row].is))
             => Config!Sound(Config!Merged(v3[w].input, v2[v3[w].row].is))'
        BY <1>1, <1>3, FormKept
    <2> QED
        BY <2>1, <2>2, <2>3, <2>4, ReadIsSound
<1>6. ASSUME NEW x \in Worker, x # w, v3'[x] # Config!Closed
      PROVE  /\ v3[x] # Config!Closed /\ (SeenThen(x)' <=> SeenThen(x))
             /\ (Current(x)' <=> Current(x)) /\ v3'[x] = v3[x]
    BY <1>1, <1>6 DEF SeenThen, Current, RecordTypes, RowOf, Config!Absent, Config!Watched
<1>7. FormsHold'
    <2>1. ASSUME NEW x \in Worker, v3'[x] # Config!Closed
          PROVE  /\ SeenThen(x)' /\ Config!ParsesAs(v3[x].input)'
                 /\ Current(x)' => Config!Sound(Config!Merged(v3[x].input, v2[v3[x].row].is))'
        <3>1. CASE x = w
            BY <1>5, <3>1
        <3>2. CASE x # w
            BY <1>1, <1>6, <2>1, <3>2, FormKept DEF FormsHold
        <3> QED
            BY <3>1, <3>2
    <2> QED
        BY <2>1 DEF FormsHold, Config!Closed
<1>8. LockHolds'
    <2>1. ASSUME v1 = "branch", NEW x \in Worker, v3'[x] # Config!Closed, Current(x)',
                 Config!Deactivates(x)'
          PROVE  x \in v4' /\ Config!ActiveOthers(v3[x].row)' # {}
        <3>1. Config!ActiveOthers(v3[x].row)' = Config!ActiveOthers(v3[x].row)
            BY <1>1, <1>3, <1>6, <2>1 DEF Config!ActiveOthers, Config!Stored, Config!IsRow
        <3>2. CASE x = w
            <4>1. Config!Deactivates(w)
                BY <1>1, <1>3, <2>1, <3>2 DEF Config!Deactivates, Config!Before
            <4> QED
                BY <1>1, <2>1, <3>1, <3>2, <4>1
        <3>3. CASE x # w
            <4>1. Current(x) /\ Config!Deactivates(x) /\ v3[x] # Config!Closed
                BY <1>1, <1>6, <2>1, <3>3 DEF Config!Deactivates, Config!Before
            <4> QED
                BY <1>1, <2>1, <3>1, <4>1 DEF LockHolds
        <3> QED
            BY <3>2, <3>3
    <2>2. \A x, y \in v4' : x = y
        BY <1>1 DEF LockHolds
    <2> QED
        BY <1>1, <2>1, <2>2 DEF LockHolds, Config!Closed
<1>9. Config!RowsAreSound'
    BY <1>1 DEF Config!RowsAreSound, Config!Stored, Config!IsRow, Config!Sound,
                Config!checkOptions, Config!registrationWindowOk
<1> QED
    BY <1>1, <1>4, <1>7, <1>8, <1>9
    DEF Config!EditsAreSafe, Config!AuthorHadSeen, Config!StaysSetUp, Config!IsSetUp,
        Config!SomeBranchActive, Config!Stored

LEMMA SaveSteps ==
    ASSUME RecordsInv, NEW w \in Worker, Config!Save(w)
    PROVE  RecordsInv' /\ Config!EditsAreSafe
<1> USE DEF RecordsInv
<1> DEFINE r == v3[w].row
<1>1. v1' = v1 /\ v3' = [v3 EXCEPT ![w] = Config!Closed] /\ v4' = v4 \ {w}
    BY DEF Config!Save, Config!Finish
<1>2. /\ v3[w] \in FormOf /\ Current(w)
      /\ v2'[r] \in RowOf /\ v2'[r].version = v2[r].version + 1
      /\ Config!Sound(v2'[r].is)
      /\ v1 \in {"branch", "institution"}
            => v2'[r].is = Config!Merged(v3[w].input, v2[r].is)
      /\ \A s \in Thing : s # r => Quiet(v2[s], v2'[s])
      /\ v2' = [s \in Thing |-> v2'[s]]
    BY <1>1, Saves
<1>3. r \in Thing /\ v2[r] \in RowOf /\ v3[w] # Config!Closed
    BY <1>2, Kinds DEF FormOf, Current
<1>4. /\ v2' \in [Thing -> RowOf \cup {Config!Absent, Config!Gone}]'
      /\ Config!RowsAreSound'
      /\ \A s \in Thing : s # r /\ Config!IsRow(v2[s])
            => Config!Watched(v2'[s].is) = Config!Watched(v2[s].is)
    BY <1>1, <1>2, <1>3, RowsFollow
<1>5. RecordTypes'
    BY <1>1, <1>4 DEF RecordTypes, RowOf, FormOf, Config!Absent, Config!Gone, Config!Closed
<1>6. ASSUME NEW x \in Worker, v3'[x] # Config!Closed
      PROVE  x # w /\ v3'[x] = v3[x] /\ v3[x] # Config!Closed /\ v3[x].row \in Thing
    BY <1>1, <1>6 DEF RecordTypes, FormOf
<1>7. ASSUME NEW x \in Worker, v3'[x] # Config!Closed
      PROVE  /\ SeenThen(x)'
             /\ Current(x)' => Config!Sound(Config!Merged(v3[x].input, v2[v3[x].row].is))'
             /\ Current(x)' => Current(x) /\ Quiet(v2[v3[x].row], v2'[v3[x].row])
    <2>1. x # w /\ v3'[x] = v3[x] /\ v3[x] # Config!Closed /\ v3[x].row \in Thing
        BY <1>6, <1>7
    <2>2. \/ Quiet(v2[v3[x].row], v2'[v3[x].row])
          \/ v2[r] \in RowOf /\ v2'[r] \in RowOf /\ v2'[r].version = v2[r].version + 1
                /\ v3[x].row = r
        BY <1>2, <1>3, <2>1
    <2>3. /\ SeenThen(x)
          /\ Current(x) => Config!Sound(Config!Merged(v3[x].input, v2[v3[x].row].is))
        BY <2>1 DEF FormsHold
    <2> QED
        BY <1>1, <2>1, <2>2, <2>3, FormStays
<1>8. FormsHold'
    <2>1. ASSUME NEW x \in Worker, v3'[x] # Config!Closed PROVE Config!ParsesAs(v3[x].input)'
        BY <1>1, <1>6, <2>1 DEF FormsHold, Config!ParsesAs, Config!endsAfterStart,
               Config!afterStart, Config!registrationWindowOk
    <2> QED
        BY <1>7, <2>1 DEF FormsHold, Config!Closed
<1>9. v1 = "branch" => \A s \in Thing : s # r => v2'[s] = v2[s]
    BY <1>2 DEF Quiet
<1>10. ASSUME v1 = "branch", v2[r].is.isActive, ~Config!Deactivates(w)
       PROVE  v2'[r].is.isActive
    <2>1. "isActive" \in DOMAIN v2[r].is
        BY <1>3, <1>10 DEF RowOf, Config!Holding, Config!Branch
    <2>2. v2'[r].is["isActive"] = IF "isActive" \in DOMAIN v3[w].input
                                  THEN v3[w].input["isActive"] ELSE v2[r].is["isActive"]
        BY <1>2, <1>10, <2>1 DEF Config!Merged
    <2>3. CASE "isActive" \in DOMAIN v3[w].input
        <3>1. v3[w].input["isActive"]
            BY <1>10, <2>3 DEF Config!Deactivates, Config!Before
        <3> QED
            BY <2>2, <2>3, <3>1, Zenon
    <2>4. CASE "isActive" \notin DOMAIN v3[w].input
        BY <1>10, <2>2, <2>4, Zenon
    <2> QED
        BY <2>3, <2>4
<1>11. Config!Deactivates(w) /\ v1 = "branch" => w \in v4 /\ Config!ActiveOthers(r) # {}
    BY <1>2, <1>3 DEF LockHolds
<1>12. LockHolds'
    <2>1. ASSUME v1 = "branch", NEW x \in Worker, v3'[x] # Config!Closed, Current(x)',
                 Config!Deactivates(x)'
          PROVE  x \in v4' /\ Config!ActiveOthers(v3[x].row)' # {}
        <3>1. x # w /\ v3'[x] = v3[x] /\ v3[x] # Config!Closed
            BY <1>6, <2>1
        <3>2. Current(x) /\ v2'[v3[x].row] = v2[v3[x].row]
            BY <1>7, <2>1 DEF Quiet
        <3>3. Config!Deactivates(x)
            BY <2>1, <3>1, <3>2 DEF Config!Deactivates, Config!Before
        <3>4. x \in v4 /\ Config!ActiveOthers(v3[x].row) # {} /\ w \notin v4
            BY <2>1, <3>1, <3>2, <3>3 DEF LockHolds
        <3>5. PICK s \in Thing : Config!IsRow(v2[s]) /\ s # v3[x].row /\ v2[s].is.isActive
            BY <3>4 DEF Config!ActiveOthers, Config!Stored
        <3>6. Config!IsRow(v2'[s]) /\ v2'[s].is.isActive
            BY <1>2, <1>9, <1>10, <1>11, <2>1, <3>4, <3>5, Kinds
        <3>7. s \in Config!ActiveOthers(v3[x].row)'
            BY <3>1, <3>5, <3>6 DEF Config!ActiveOthers, Config!Stored, Config!IsRow
        <3> QED
            BY <1>1, <3>1, <3>4, <3>7
    <2>2. \A x, y \in v4' : x = y
        BY <1>1 DEF LockHolds
    <2> QED
        BY <1>1, <2>1, <2>2 DEF LockHolds, Config!Closed
<1>13. Config!AuthorHadSeen
    <2> SUFFICES ASSUME NEW s \in Thing, Config!IsRow(v2[s]),
                        Config!Watched(v2'[s].is) # Config!Watched(v2[s].is)
                 PROVE  \E x \in Worker : /\ v3[x] # Config!Closed /\ v3'[x] = Config!Closed
                                          /\ v3[x].row = s
                                          /\ Config!Watched(v3[x].seen.is) = Config!Watched(v2[s].is)
        BY DEF Config!AuthorHadSeen, Config!Stored
    <2>1. s = r
        BY <1>4
    <2>2. v3'[w] = Config!Closed
        BY <1>1 DEF RecordTypes
    <2>3. Config!Watched(v3[w].seen.is) = Config!Watched(v2[r].is)
        BY <1>2, <1>3 DEF FormsHold, SeenThen, Current
    <2> QED
        BY <1>3, <2>1, <2>2, <2>3
<1>14. ASSUME v1 = "branch", NEW s \in Thing, Config!IsRow(v2[s]), v2[s].is.isActive
       PROVE  \E t \in Thing : Config!IsRow(v2'[t]) /\ v2'[t].is.isActive
    <2>1. CASE s # r
        BY <1>9, <1>14, <2>1
    <2>2. CASE s = r /\ ~Config!Deactivates(w)
        BY <1>2, <1>10, <1>14, <2>2, Kinds
    <2>3. CASE Config!Deactivates(w)
        <3>1. PICK t \in Thing : Config!IsRow(v2[t]) /\ t # r /\ v2[t].is.isActive
            BY <1>11, <1>14, <2>3 DEF Config!ActiveOthers, Config!Stored
        <3> QED
            BY <1>9, <1>14, <3>1
    <2> QED
        BY <2>1, <2>2, <2>3
<1>15. Config!StaysSetUp
    <2> SUFFICES ASSUME v1 = "institution", NEW s \in Thing, Config!IsRow(v2[s]),
                        v2[s].is.setupCompleted
                 PROVE  v2'[s].is.setupCompleted
        BY <1>1 DEF Config!StaysSetUp, Config!IsSetUp, Config!Stored
    <2>1. CASE s # r
        BY <1>2, <2>1 DEF Quiet
    <2>2. CASE s = r
        <3>1. "setupCompleted" \in DOMAIN v2[r].is
            BY <1>3 DEF RowOf, Config!Holding, Config!Institution
        <3>2. v3[w].input \in Config!Inputs[v1] /\ v1 \in Config!Table
            BY <1>2 DEF FormOf, RecordTypes
        <3>3. "setupCompleted" \notin DOMAIN v3[w].input
            BY <3>2, InputsGive
        <3>4. v2'[r].is["setupCompleted"] = v2[r].is["setupCompleted"]
            BY <1>2, <3>1, <3>3 DEF Config!Merged
        <3> QED
            BY <2>2, <3>4, Zenon
    <2> QED
        BY <2>1, <2>2
<1>16. Config!EditsAreSafe
    BY <1>13, <1>14, <1>15 DEF Config!EditsAreSafe, Config!SomeBranchActive
<1> QED
    BY <1>4, <1>5, <1>8, <1>12, <1>16

LEMMA RefuseSteps ==
    ASSUME RecordsInv, NEW w \in Worker, Config!Refuse(w)
    PROVE  RecordsInv' /\ Config!EditsAreSafe
<1> USE DEF RecordsInv
<1>1. v1' = v1 /\ v2' = v2 /\ v3' = [v3 EXCEPT ![w] = Config!Closed] /\ v4' = v4 \ {w}
    BY DEF Config!Refuse, Config!Finish
<1>2. RecordTypes'
    BY <1>1 DEF RecordTypes, RowOf, FormOf, Config!Absent, Config!Gone, Config!Closed
<1>3. ASSUME NEW x \in Worker, v3'[x] # Config!Closed
      PROVE  /\ x # w /\ v3'[x] = v3[x] /\ v3[x] # Config!Closed
             /\ (SeenThen(x)' <=> SeenThen(x)) /\ (Current(x)' <=> Current(x))
    BY <1>1, <1>3 DEF SeenThen, Current, RecordTypes, RowOf, Config!Absent, Config!Watched
<1>4. FormsHold'
    <2>1. ASSUME NEW x \in Worker, v3'[x] # Config!Closed
          PROVE  /\ SeenThen(x)' /\ Config!ParsesAs(v3[x].input)'
                 /\ Current(x)' => Config!Sound(Config!Merged(v3[x].input, v2[v3[x].row].is))'
        BY <1>1, <1>3, <2>1, FormKept DEF FormsHold
    <2> QED
        BY <2>1 DEF FormsHold, Config!Closed
<1>5. LockHolds'
    <2>1. ASSUME v1 = "branch", NEW x \in Worker, v3'[x] # Config!Closed, Current(x)',
                 Config!Deactivates(x)'
          PROVE  x \in v4' /\ Config!ActiveOthers(v3[x].row)' # {}
        <3>1. x # w /\ v3'[x] = v3[x] /\ v3[x] # Config!Closed /\ Current(x)
            BY <1>3, <2>1
        <3>2. Config!Deactivates(x)
            BY <1>1, <2>1, <3>1 DEF Config!Deactivates, Config!Before
        <3> QED
            BY <1>1, <2>1, <3>1, <3>2 DEF LockHolds, Config!ActiveOthers, Config!Stored,
                                          Config!IsRow
    <2>2. \A x, y \in v4' : x = y
        BY <1>1 DEF LockHolds
    <2> QED
        BY <1>1, <2>1, <2>2 DEF LockHolds, Config!Closed
<1>6. Config!RowsAreSound'
    BY <1>1 DEF Config!RowsAreSound, Config!Stored, Config!IsRow, Config!Sound,
                Config!checkOptions, Config!registrationWindowOk
<1> QED
    BY <1>1, <1>2, <1>4, <1>5, <1>6
    DEF Config!EditsAreSafe, Config!AuthorHadSeen, Config!StaysSetUp, Config!IsSetUp,
        Config!SomeBranchActive, Config!Stored

LEMMA RecordSteps ==
    ASSUME RecordsInv, [Config!Next]_(Config!vars)
    PROVE  RecordsInv' /\ Config!EditsAreSafe
<1>1. CASE UNCHANGED Config!vars
    <2>1. v1' = v1 /\ v2' = v2 /\ v3' = v3 /\ v4' = v4
        BY <1>1 DEF Config!vars
    <2>2. RecordTypes' /\ Config!RowsAreSound'
        BY <2>1 DEF RecordsInv, RecordTypes, RowOf, FormOf, Config!Absent, Config!Gone,
            Config!Closed, Config!RowsAreSound, Config!Stored, Config!IsRow, Config!Sound,
            Config!checkOptions, Config!registrationWindowOk
    <2>3. FormsHold'
        BY <2>1, FormKept DEF RecordsInv, FormsHold, SeenThen, Current, RowOf, Config!Absent,
            Config!Closed, Config!Watched
    <2>4. LockHolds'
        BY <2>1 DEF RecordsInv, LockHolds, Current, RowOf, Config!Closed, Config!Deactivates,
            Config!Before, Config!ActiveOthers, Config!Stored, Config!IsRow
    <2>5. Config!EditsAreSafe
        BY <2>1 DEF Config!EditsAreSafe, Config!AuthorHadSeen, Config!StaysSetUp,
            Config!IsSetUp, Config!SomeBranchActive, Config!Stored
    <2> QED
        BY <2>2, <2>3, <2>4, <2>5 DEF RecordsInv
<1>2. CASE Config!Next
    BY <1>2, CreateSteps, CompleteSteps, DeleteSteps, OpenSteps, UpdateSteps, SaveSteps, RefuseSteps
    DEF Config!Next
<1> QED
    BY <1>1, <1>2

AtRecordsInv == AtRecords => RecordsInv

LEMMA RecordsStay ==
    /\ OfficeInit => AtRecordsInv
    /\ AtRecordsInv /\ [OfficeNext]_office => AtRecordsInv'
    /\ AtRecordsInv /\ [OfficeNext]_office
          => [part = "records" => Config!RowsAreSound' /\ Config!EditsAreSafe]_office
<1>1. OfficeInit => AtRecordsInv
    <2> SUFFICES ASSUME OfficeInit, AtRecords PROVE RecordsInv
        BY DEF AtRecordsInv
    <2>1. Config!Init
        BY DEF OfficeInit, AtRecords
    <2>2. v1 \in Config!Table /\ v3 = [w \in Worker |-> Config!Closed] /\ v4 = {}
        BY <2>1 DEF Config!Init
    <2>3. v2 \in [Thing -> RowOf \cup {Config!Absent, Config!Gone}]
        <3>1. CASE v1 = "institution"
            <4>1. PICK r \in Thing, c \in Config!Institution :
                      v2 = [s \in Thing |-> IF s = r THEN Config!New(c) ELSE Config!Absent]
                BY <2>1, <3>1 DEF Config!Init
            <4>2. Config!New(c) \in RowOf
                BY <3>1 DEF RowOf, Config!New, Config!Holding
            <4> QED
                BY <4>1, <4>2
        <3>2. CASE v1 # "institution"
            BY <2>1, <3>2 DEF Config!Init
        <3> QED
            BY <3>1, <3>2
    <2>4. Config!RowsAreSound
        <3>1. CASE v1 = "institution"
            BY <3>1 DEF Config!RowsAreSound, Config!Sound
        <3>2. CASE v1 # "institution"
            BY <2>1, <3>2, Kinds DEF Config!Init, Config!RowsAreSound, Config!Stored
        <3> QED
            BY <3>1, <3>2
    <2> QED
        BY <2>2, <2>3, <2>4 DEF RecordsInv, RecordTypes, FormsHold, LockHolds
<1>2. ASSUME AtRecordsInv, [OfficeNext]_office, AtRecords \/ AtRecords'
      PROVE  AtRecords /\ RecordsInv /\ [Config!Next]_(Config!vars)
    BY <1>2 DEF AtRecordsInv, AtRecords, OfficeNext, office, Config!vars
<1>3. ASSUME AtRecordsInv, [OfficeNext]_office PROVE AtRecordsInv'
    BY <1>2, <1>3, RecordSteps DEF AtRecordsInv
<1>4. ASSUME AtRecordsInv, [OfficeNext]_office, AtRecords
      PROVE  Config!RowsAreSound' /\ Config!EditsAreSafe
    BY <1>2, <1>4, RecordSteps DEF RecordsInv
<1> QED
    BY <1>1, <1>3, <1>4 DEF AtRecords

(* Rows stay sound under partial edits, nobody but the institution's       *)
(* set-up, once, overwrites a change they have not seen, and once there is *)
(* an active branch one remains (updateWithVersion, the handlers of the    *)
(* fourteen tables that use it, and the set-up, which does not), for any   *)
(* number of people at work and of rows.                                   *)
THEOREM RecordsStaySound == OfficeSpec => RecordsHold
BY RecordsStay, PTL DEF OfficeSpec, RecordsHold

-----------------------------------------------------------------------------
(* The audit log: the chain never forks and its verification is right, for   *)
(* any number of writers, entries and batch size.                            *)
(*                                                                           *)
(* Two facts carry the argument.  A committed row only ever gets later ones  *)
(* after it (Ascending), so the rows a verification has passed stay as they  *)
(* were; and a hash is longer than every hash chained before it (Lengthens), *)
(* so a row that has lost or changed its predecessor cannot fit the one it   *)
(* has now.                                                                  *)
Below(n, rows) == {r \in rows : r.seq < n}
Chains(r, rows) == /\ r.prevHash = HashOfNewest(Below(r.seq, rows))
                   /\ r.hash = chainHash(r.content, r.prevHash)
Lengthens(rows) == \A r, s \in rows : r.seq < s.seq => Len(r.hash) <= Len(s.prevHash)
Chained(rows)   == Lengthens(rows) /\ \A r \in rows : Chains(r, rows)
Numbered(rows)  == \A r, s \in rows : r.seq = s.seq => r = s

-----------------------------------------------------------------------------
(* Finite sets of numbers have a least and a greatest element. *)
LEMMA Extremes ==
    ASSUME NEW T \in SUBSET Nat, IsFiniteSet(T), T # {}
    PROVE  /\ \E n \in T : \A m \in T : m <= n
           /\ \E n \in T : \A m \in T : n <= m
<1> DEFINE Order == StrictSubsetOrdering(T)
<1>1. IsWellFoundedOn(Order, FiniteSubsetsOf(T))
    BY FS_StrictSubsetOrderingWellFounded
<1>2. \A S \in SUBSET T : S \in FiniteSubsetsOf(T)
    BY FS_Subset DEF FiniteSubsetsOf
<1>3. \A S, U \in SUBSET T : S \subseteq U /\ S # U => <<S, U>> \in Order
    BY DEF StrictSubsetOrdering
<1> HIDE DEF Order
<1>4. ASSUME NEW family \in SUBSET (SUBSET T), family # {}
      PROVE  \E S \in family : \A U \in family : ~(U \subseteq S /\ U # S)
    <2>1. family \subseteq FiniteSubsetsOf(T)
        BY <1>2
    <2>2. PICK S \in family : \A U \in family : ~(<<U, S>> \in Order)
        BY <1>1, <1>4, <2>1, WFMin
    <2> QED
        BY <1>3, <1>4, <2>2
<1>5. \E n \in T : \A m \in T : m <= n
    <2> DEFINE above(n) == {m \in T : n < m}
               sets == {above(n) : n \in T}
    <2>1. sets \in SUBSET (SUBSET T) /\ sets # {}
        OBVIOUS
    <2>2. PICK S \in sets : \A U \in sets : ~(U \subseteq S /\ U # S)
        <3> HIDE DEF sets
        <3> QED
            BY <1>4, <2>1
    <2>3. PICK n \in T : S = above(n)
        OBVIOUS
    <2>4. ASSUME NEW m \in T, n < m
          PROVE  FALSE
        <3>1. n \in Nat /\ m \in Nat /\ m \in T /\ n < m
            BY <2>3, <2>4
        <3>2. m \in above(n) /\ m \notin above(m)
            BY <3>1
        <3>3. \A k \in T : m < k => n < k
            BY <3>1
        <3>4. above(m) \subseteq above(n) /\ m \in above(n) /\ m \notin above(m)
            BY <3>2, <3>3
        <3>5. above(m) \in sets
            OBVIOUS
        <3> QED
            BY <2>2, <2>3, <3>4, <3>5
    <2> QED
        BY <2>3, <2>4
<1>6. \E n \in T : \A m \in T : n <= m
    <2> DEFINE below(n) == {m \in T : m < n}
               sets == {below(n) : n \in T}
    <2>1. sets \in SUBSET (SUBSET T) /\ sets # {}
        OBVIOUS
    <2>2. PICK S \in sets : \A U \in sets : ~(U \subseteq S /\ U # S)
        <3> HIDE DEF sets
        <3> QED
            BY <1>4, <2>1
    <2>3. PICK n \in T : S = below(n)
        OBVIOUS
    <2>4. ASSUME NEW m \in T, m < n
          PROVE  FALSE
        <3>1. n \in Nat /\ m \in Nat /\ m \in T /\ m < n
            BY <2>3, <2>4
        <3>2. m \in below(n) /\ m \notin below(m)
            BY <3>1
        <3>3. \A k \in T : k < m => k < n
            BY <3>1
        <3>4. below(m) \subseteq below(n) /\ m \in below(n) /\ m \notin below(m)
            BY <3>2, <3>3
        <3>5. below(m) \in sets
            OBVIOUS
        <3> QED
            BY <2>2, <2>3, <3>4, <3>5
    <2> QED
        BY <2>3, <2>4
<1> QED
    BY <1>5, <1>6

(* Rows. *)
LEMMA RowKind ==
    ASSUME NEW r \in AuditRow
    PROVE  /\ r.seq \in 1..MaxSeq /\ r.seq \in Nat /\ r.content \in Content
           /\ r.prevHash \in Seq(Content) /\ r.hash \in Seq(Content)
           /\ Len(r.prevHash) \in Nat /\ Len(r.hash) \in Nat
<1>1. /\ r.seq \in 1..MaxSeq /\ r.content \in Content
      /\ r.prevHash \in Seq(Content) /\ r.hash \in Seq(Content)
    BY DEF AuditRow
<1> QED
    BY <1>1, AuditAssumption, LenProperties

LEMMA HashLength ==
    ASSUME NEW c \in Content, NEW h \in Seq(Content)
    PROVE  /\ chainHash(c, h) \in Seq(Content) /\ Len(chainHash(c, h)) = Len(h) + 1
           /\ \A d \in Content : chainHash(c, h) = chainHash(d, h) => c = d
BY AppendProperties, AppendInjective DEF chainHash

LEMMA NewestIs ==
    ASSUME NEW rows \in SUBSET AuditRow, rows # {}
    PROVE  /\ Newest(rows) \in rows /\ \A s \in rows : s.seq <= Newest(rows).seq
           /\ \E r \in rows : \A s \in rows : r.seq <= s.seq
<1> DEFINE T == {r.seq : r \in rows}
<1>1. T \subseteq 1..MaxSeq /\ T # {} /\ T \in SUBSET Nat
    BY RowKind
<1>2. IsFiniteSet(T)
    <2>1. 1 \in Int /\ MaxSeq \in Int
        BY AuditAssumption
    <2>2. IsFiniteSet(1..MaxSeq)
        BY <2>1, FS_Interval, Zenon
    <2> QED
        BY <1>1, <2>2, FS_Subset
<1>3. /\ \E n \in T : \A m \in T : m <= n
      /\ \E n \in T : \A m \in T : n <= m
    <2> HIDE DEF T
    <2> QED
        BY <1>1, <1>2, Extremes
<1>4. \E r \in rows : \A s \in rows : s.seq <= r.seq
    BY <1>3
<1>5. \E r \in rows : \A s \in rows : r.seq <= s.seq
    BY <1>3
<1> QED
    BY <1>4, <1>5 DEF Newest

LEMMA HashTyped ==
    ASSUME NEW rows \in SUBSET AuditRow
    PROVE  HashOfNewest(rows) \in Seq(Content)
BY NewestIs, RowKind DEF HashOfNewest

LEMMA NewestOnly ==
    ASSUME NEW rows \in SUBSET AuditRow, Numbered(rows),
           NEW r \in rows, \A s \in rows : s.seq <= r.seq
    PROVE  Newest(rows) = r /\ HashOfNewest(rows) = r.hash
<1>1. Newest(rows) \in rows /\ r.seq <= Newest(rows).seq /\ Newest(rows).seq <= r.seq
    BY NewestIs
<1>2. r.seq \in Nat /\ Newest(rows).seq \in Nat
    BY <1>1, RowKind
<1>3. Newest(rows) = r
    BY <1>1, <1>2 DEF Numbered
<1> QED
    BY <1>3 DEF HashOfNewest

LEMMA RowsCounted ==
    ASSUME NEW rows \in SUBSET AuditRow, Numbered(rows), NEW a \in Nat, NEW b \in Nat, a <= b,
           \A r \in rows : a < r.seq /\ r.seq <= b
    PROVE  IsFiniteSet(rows) /\ Cardinality(rows) \in Nat /\ Cardinality(rows) <= b - a
<1> DEFINE number == [r \in rows |-> r.seq]
<1>1. number \in Injection(rows, (a + 1)..b)
    <2>1. \A r \in rows : r.seq \in (a + 1)..b
        BY RowKind
    <2>2. number \in [rows -> (a + 1)..b]
        BY <2>1
    <2>3. \A r, s \in rows : number[r] = number[s] => r = s
        BY DEF Numbered
    <2> QED
        BY <2>2, <2>3 DEF Injection, IsInjective
<1>2. IsFiniteSet((a + 1)..b) /\ Cardinality((a + 1)..b) = b - a
    <2>1. PICK n \in Int : n = a + 1 /\ b \in Int
        OBVIOUS
    <2>2. /\ IsFiniteSet(n..b)
          /\ Cardinality(n..b) = IF n > b THEN 0 ELSE b - n + 1
        BY <2>1, FS_Interval, Zenon
    <2>3. (IF n > b THEN 0 ELSE b - n + 1) = b - a
        BY <2>1
    <2> QED
        BY <2>1, <2>2, <2>3
<1>3. IsFiniteSet(rows) /\ Cardinality(rows) <= Cardinality((a + 1)..b)
    <2> HIDE DEF number
    <2> QED
        BY <1>1, <1>2, FS_Injection
<1> QED
    BY <1>2, <1>3, FS_CardinalityType

-----------------------------------------------------------------------------
(* A chain, and what is put after it. *)
LEMMA NewestIsLongest ==
    ASSUME NEW rows \in SUBSET AuditRow, Numbered(rows), Chained(rows), NEW r \in rows
    PROVE  Len(r.hash) <= Len(HashOfNewest(rows))
<1>1. PICK n \in rows : n = Newest(rows) /\ r.seq <= n.seq
    BY NewestIs
<1>2. HashOfNewest(rows) = n.hash
    BY <1>1 DEF HashOfNewest
<1>3. CASE r = n
    BY <1>2, <1>3, RowKind
<1>4. CASE r # n
    <2>1. r.seq < n.seq
        BY <1>1, <1>4, RowKind DEF Numbered
    <2>2. Len(r.hash) <= Len(n.prevHash)
        BY <2>1 DEF Chained, Lengthens
    <2>3. n.hash = chainHash(n.content, n.prevHash)
        BY DEF Chained, Chains
    <2>4. Len(n.hash) = Len(n.prevHash) + 1
        BY <2>3, RowKind, HashLength
    <2> QED
        BY <1>2, <2>2, <2>4, RowKind
<1> QED
    BY <1>3, <1>4

LEMMA SamePast ==
    ASSUME NEW rows, NEW more, rows \subseteq more, more \in SUBSET AuditRow,
           \A r \in rows, s \in more \ rows : r.seq < s.seq, NEW r \in rows
    PROVE  /\ Below(r.seq, more) = Below(r.seq, rows)
           /\ Chains(r, more) <=> Chains(r, rows)
<1>1. \A s \in more : s.seq \in Nat
    BY RowKind
<1>2. \A s \in more : s.seq < r.seq => s \in rows
    BY <1>1
<1>3. Below(r.seq, more) = Below(r.seq, rows)
    BY <1>2 DEF Below
<1> QED
    BY <1>3 DEF Chains

LEMMA Appended ==
    ASSUME NEW rows \in SUBSET AuditRow, Numbered(rows), Chained(rows), NEW e \in AuditRow,
           \A r \in rows : r.seq < e.seq,
           e.prevHash = HashOfNewest(rows), e.hash = chainHash(e.content, e.prevHash)
    PROVE  Numbered(rows \cup {e}) /\ Chained(rows \cup {e})
<1> DEFINE more == rows \cup {e}
<1>1. \A r \in more : r.seq \in Nat
    BY RowKind
<1>2. Numbered(more)
    BY <1>1 DEF Numbered
<1>3. \A r \in rows : Chains(r, more)
    <2> SUFFICES ASSUME NEW r \in rows
                 PROVE  Chains(r, more)
        OBVIOUS
    <2>1. rows \subseteq more /\ more \in SUBSET AuditRow
          /\ \A q \in rows, s \in more \ rows : q.seq < s.seq
        OBVIOUS
    <2>2. Chains(r, rows)
        BY DEF Chained
    <2> HIDE DEF more
    <2> QED
        BY <2>1, <2>2, SamePast
<1>4. Chains(e, more)
    <2>1. Below(e.seq, more) = rows
        BY <1>1 DEF Below
    <2> QED
        BY <2>1 DEF Chains
<1>5. Lengthens(more)
    <2> SUFFICES ASSUME NEW r \in more, NEW s \in more, r.seq < s.seq
                 PROVE  Len(r.hash) <= Len(s.prevHash)
        BY DEF Lengthens
    <2>1. r \in rows
        BY <1>1
    <2>2. CASE s = e
        BY <2>1, <2>2, NewestIsLongest
    <2>3. CASE s \in rows
        BY <2>1, <2>3 DEF Chained, Lengthens
    <2> QED
        BY <2>2, <2>3
<1> QED
    BY <1>2, <1>3, <1>4, <1>5 DEF Chained

-----------------------------------------------------------------------------
(* A chain that is damaged once has a row that does not chain. *)
LEMMA EditBreaks ==
    ASSUME NEW rows \in SUBSET AuditRow, Chained(rows), NEW r \in rows,
           NEW c \in Content \ {r.content}, NEW n, n = [r EXCEPT !.content = c]
    PROVE  ~Chains(n, (rows \ {r}) \cup {n})
<1>1. n.content = c /\ n.prevHash = r.prevHash /\ n.hash = r.hash
    BY DEF AuditRow
<1>2. r.hash = chainHash(r.content, r.prevHash)
    BY DEF Chained, Chains
<1>3. chainHash(r.content, r.prevHash) # chainHash(c, r.prevHash)
    BY RowKind, HashLength
<1> QED
    BY <1>1, <1>2, <1>3 DEF Chains

LEMMA RemovalBreaks ==
    ASSUME NEW rows \in SUBSET AuditRow, Numbered(rows), Chained(rows), NEW r \in rows,
           r # Newest(rows)
    PROVE  \E s \in rows \ {r} : ~Chains(s, rows \ {r})
<1> DEFINE after == {s \in rows : r.seq < s.seq}
<1>0. \A s \in rows : s.seq \in Nat /\ Len(s.hash) \in Nat /\ Len(s.prevHash) \in Nat
    BY RowKind
<1>1. Newest(rows) \in after
    BY <1>0, NewestIs DEF Numbered
<1>2. PICK n \in after : \A s \in after : n.seq <= s.seq
    <2>1. after \in SUBSET AuditRow /\ after # {}
        BY <1>1
    <2> HIDE DEF after
    <2> QED
        BY <2>1, NewestIs
<1>3. n \in rows /\ r.seq < n.seq /\ n \in rows \ {r}
    BY <1>0, <1>2
<1>4. n.prevHash = r.hash
    <2>1. Below(n.seq, rows) \in SUBSET AuditRow /\ r \in Below(n.seq, rows)
        BY <1>3 DEF Below
    <2>2. \A s \in Below(n.seq, rows) : s.seq <= r.seq
        BY <1>0, <1>2, <1>3 DEF Below
    <2>3. Numbered(Below(n.seq, rows))
        BY DEF Numbered, Below
    <2>4. HashOfNewest(Below(n.seq, rows)) = r.hash
        BY <2>1, <2>2, <2>3, NewestOnly
    <2> QED
        BY <1>3, <2>4 DEF Chained, Chains
<1>5. HashOfNewest(Below(n.seq, rows \ {r})) # r.hash
    <2> DEFINE left == Below(n.seq, rows \ {r})
    <2>1. left \in SUBSET AuditRow /\ \A s \in left : s \in rows /\ s.seq < r.seq
        <3> SUFFICES ASSUME NEW s \in left
                     PROVE  s \in rows /\ s.seq < r.seq
            OBVIOUS
        <3>1. s \in rows /\ s # r /\ s.seq < n.seq
            BY DEF Below
        <3> QED
            BY <1>0, <1>2, <3>1 DEF Numbered
    <2>2. r.hash = chainHash(r.content, r.prevHash)
        BY DEF Chained, Chains
    <2>3. Len(r.hash) = Len(r.prevHash) + 1
        BY <2>2, RowKind, HashLength
    <2>4. CASE left = {}
        <3>1. HashOfNewest(left) = <<>>
            BY <2>4 DEF HashOfNewest
        <3>2. Len(<<>>) = 0
            OBVIOUS
        <3> QED
            BY <1>0, <2>3, <3>1, <3>2
    <2>5. CASE left # {}
        <3> HIDE DEF left
        <3>1. PICK m \in left : HashOfNewest(left) = m.hash
            BY <2>1, <2>5, NewestIs DEF HashOfNewest
        <3>2. Len(m.hash) <= Len(r.prevHash)
            BY <2>1, <3>1 DEF Chained, Lengthens
        <3>3. Len(m.hash) # Len(r.hash)
            BY <1>0, <2>1, <2>3, <3>1, <3>2
        <3>4. HashOfNewest(left) # r.hash
            BY <3>1, <3>3
        <3> QED
            BY <3>4 DEF left
    <2> QED
        BY <2>4, <2>5
<1> QED
    BY <1>3, <1>4, <1>5 DEF Chains

LEMMA ExchangeBreaks ==
    ASSUME NEW rows \in SUBSET AuditRow, Numbered(rows), Chained(rows),
           NEW r \in rows, NEW s \in rows, r.seq < s.seq,
           NEW m, m = [s EXCEPT !.seq = r.seq], NEW n, n = [r EXCEPT !.seq = s.seq]
    PROVE  ~Chains(m, (rows \ {r, s}) \cup {n, m})
<1> DEFINE more == (rows \ {r, s}) \cup {n, m}
<1>0. /\ \A q \in rows : q.seq \in Nat
      /\ r.prevHash \in Seq(Content) /\ Len(r.prevHash) \in Nat
    BY RowKind
<1>1. m.seq = r.seq /\ m.prevHash = s.prevHash /\ n.seq = s.seq
    BY DEF AuditRow
<1>2. Below(r.seq, more) = Below(r.seq, rows)
    <2>1. \A q \in more : q.seq < r.seq => q \in rows
        <3>1. ~(n.seq < r.seq) /\ ~(m.seq < r.seq)
            BY <1>0, <1>1
        <3> QED
            BY <3>1
    <2>2. \A q \in rows : q.seq < r.seq => q \in more
        BY <1>0
    <2> QED
        BY <2>1, <2>2 DEF Below
<1>3. r.prevHash = HashOfNewest(Below(r.seq, rows))
      /\ r.hash = chainHash(r.content, r.prevHash)
    BY DEF Chained, Chains
<1>4. Len(r.hash) <= Len(s.prevHash)
    BY DEF Chained, Lengthens
<1>5. Len(r.hash) = Len(r.prevHash) + 1
    BY <1>3, RowKind, HashLength
<1>6. s.prevHash # r.prevHash
    BY <1>0, <1>4, <1>5
<1> QED
    BY <1>1, <1>2, <1>3, <1>6 DEF Chains

-----------------------------------------------------------------------------
(* The inductive invariant. *)
Seen(w) == log \cup tx[w].rows

(* One writer at a time has the lock, and only one that has it has rows. *)
Serial == \A w \in Writer :
    /\ tx[w].at \in {"idle", "open", "locked"} => tx[w].rows = {}
    /\ tx[w].at \in {"locked", "read", "recorded"}
          => \A v \in Writer \ {w} : tx[v].at \in {"idle", "open"}

(* Numbers differ, and what is not committed comes after all that is. *)
Ascending ==
    /\ Numbered(log) /\ \A r \in log : r.seq <= seq
    /\ \A w \in Writer :
          /\ Numbered(tx[w].rows) /\ \A r \in tx[w].rows : r.seq <= seq
          /\ \A r \in log, s \in tx[w].rows : r.seq < s.seq

(* The log, and what a writer has put after it, is a chain. *)
Unharmed == damage = <<>> =>
    /\ Chained(log)
    /\ \A w \in Writer : /\ Chained(Seen(w))
                         /\ tx[w].at = "read" => tx[w].last = HashOfNewest(Seen(w))

(* What is damaged once stays so. *)
Marked == Len(damage) = 1 /\ damage[1] # "newest removed" => \E r \in log : ~Chains(r, log)

(* The verification under way: if nothing was damaged since it began, it   *)
(* has passed exactly the rows up to the last it read, and a row that was  *)
(* damaged before is still ahead.                                          *)
UpTo(n, rows) == {r \in rows : r.seq <= n}
Undisturbed == verifier.at = "reading" /\ IF verifier.sound THEN damage = <<>> ELSE Len(damage) = 1
Walking == Undisturbed =>
    /\ verifier.after = 0 \/ \E r \in log : r.seq = verifier.after
    /\ verifier.prev = HashOfNewest(UpTo(verifier.after, log))
    /\ verifier.checked = Cardinality(UpTo(verifier.after, log))
    /\ verifier.before \subseteq log
    /\ ~verifier.sound /\ damage[1] # "newest removed"
         => \E r \in log : r.seq > verifier.after /\ ~Chains(r, log)
Counts == /\ damage = <<>> => verifier.sound
          /\ verifier.checked <= verifier.after

AuditInv ==
    TypeOK /\ Serial /\ Ascending /\ Unharmed /\ Marked /\ Walking /\ Counts /\ VerifierIsRight

-----------------------------------------------------------------------------
(* Steps. *)
TxRow == [at : {"idle", "open", "locked", "read", "recorded"},
          last : Seq(Content), rows : SUBSET AuditRow]
TxTable == [Writer -> TxRow]
Becomes(w, at, last, rows) ==
    /\ tx' \in TxTable
    /\ tx'[w].at = at /\ tx'[w].last = last /\ tx'[w].rows = rows
    /\ \A v \in Writer \ {w} : tx'[v] = tx[v]

Moves(w) == Begin(w) \/ Lock(w) \/ ReadLast(w)
Ends(w)  == Commit(w) \/ RollBack(w)
Harms    == EditRow \/ RemoveRow \/ ExchangeRows
Looks    == UNCHANGED <<log, seq, tx, damage>>

LEMMA Steps ==
    ASSUME [Next]_vars
    PROVE  \/ Looks /\ (UNCHANGED verifier \/ StartVerify \/ VerifyNextBatch)
           \/ \E w \in Writer : /\ Moves(w) \/ Ends(w) \/ \E c \in Content : Insert(w, c)
                                /\ UNCHANGED <<verifier, damage>>
           \/ Harms /\ UNCHANGED <<seq, tx, verifier>>
<1>1. CASE UNCHANGED vars
    BY <1>1 DEF vars, Looks
<1>2. ASSUME NEW w \in Writer,
             Moves(w) \/ Ends(w) \/ \E c \in Content : Insert(w, c)
      PROVE  UNCHANGED <<verifier, damage>>
    BY <1>2 DEF Moves, Ends, Begin, Lock, ReadLast, Insert, Commit, RollBack
<1>3. CASE StartVerify \/ VerifyNextBatch
    BY <1>3 DEF StartVerify, VerifyNextBatch, Looks
<1>4. CASE EditRow \/ RemoveRow \/ ExchangeRows
    BY <1>4 DEF EditRow, RemoveRow, ExchangeRows, Damage, Harms
<1> QED
    BY <1>1, <1>2, <1>3, <1>4 DEF Next, Moves, Ends

VerifierRow == [at : {"idle", "reading", "reported"}, prev : Seq(Content),
                after : 0..MaxSeq, checked : 0..MaxSeq, intact : BOOLEAN,
                before : SUBSET AuditRow, sound : BOOLEAN]

LEMMA StateKind ==
    ASSUME TypeOK
    PROVE  /\ log \in SUBSET AuditRow /\ MaxSeq \in Nat
           /\ seq \in 0..MaxSeq /\ seq \in Nat
           /\ verifier \in VerifierRow /\ verifier.at \in {"idle", "reading", "reported"}
           /\ verifier.prev \in Seq(Content) /\ verifier.before \in SUBSET AuditRow
           /\ verifier.after \in 0..MaxSeq /\ verifier.after \in Nat
           /\ verifier.checked \in 0..MaxSeq /\ verifier.checked \in Nat
           /\ verifier.sound \in BOOLEAN /\ verifier.intact \in BOOLEAN
<1>1. log \in SUBSET AuditRow /\ seq \in 0..MaxSeq /\ verifier \in VerifierRow
    BY DEF TypeOK, VerifierRow
<1>2. /\ verifier.at \in {"idle", "reading", "reported"}
      /\ verifier.prev \in Seq(Content) /\ verifier.before \in SUBSET AuditRow
      /\ verifier.after \in 0..MaxSeq /\ verifier.checked \in 0..MaxSeq
      /\ verifier.sound \in BOOLEAN /\ verifier.intact \in BOOLEAN
    BY <1>1 DEF VerifierRow
<1>3. MaxSeq \in Nat
    BY AuditAssumption
<1>4. \A n \in 0..MaxSeq : n \in Nat
    BY <1>3
<1> QED
    BY <1>1, <1>2, <1>3, <1>4

LEMMA TxKind ==
    ASSUME TypeOK, NEW w \in Writer
    PROVE  /\ tx \in TxTable
           /\ tx[w].at \in {"idle", "open", "locked", "read", "recorded"}
           /\ tx[w].last \in Seq(Content)
           /\ tx[w].rows \in SUBSET AuditRow /\ Seen(w) \in SUBSET AuditRow
           /\ log \in SUBSET AuditRow /\ seq \in Nat /\ MaxSeq \in Nat
<1>1. tx \in TxTable /\ log \in SUBSET AuditRow /\ seq \in Nat /\ MaxSeq \in Nat
    BY StateKind DEF TypeOK, TxTable, TxRow
<1>2. /\ tx[w].at \in {"idle", "open", "locked", "read", "recorded"}
      /\ tx[w].last \in Seq(Content) /\ tx[w].rows \in SUBSET AuditRow
    BY <1>1 DEF TxTable, TxRow
<1> QED
    BY <1>1, <1>2 DEF Seen

LEMMA Becoming ==
    ASSUME TypeOK, NEW w \in Writer, NEW new \in TxRow, tx' = [tx EXCEPT ![w] = new]
    PROVE  Becomes(w, new.at, new.last, new.rows)
<1>1. tx \in TxTable
    BY TxKind
<1>2. tx' \in TxTable /\ tx'[w] = new /\ \A v \in Writer \ {w} : tx'[v] = tx[v]
    BY <1>1 DEF TxTable
<1> QED
    BY <1>2 DEF Becomes

LEMMA EntryKind ==
    ASSUME TypeOK, NEW w \in Writer, NEW c \in Content, seq < MaxSeq
    PROVE  /\ Entry(w, c) \in AuditRow /\ Entry(w, c).seq = seq + 1
           /\ Entry(w, c).prevHash = tx[w].last
           /\ Entry(w, c).hash = chainHash(Entry(w, c).content, Entry(w, c).prevHash)
<1>1. seq + 1 \in 1..MaxSeq
    BY StateKind
<1>2. tx[w].last \in Seq(Content) /\ chainHash(c, tx[w].last) \in Seq(Content)
    BY TxKind, HashLength
<1> QED
    BY <1>1, <1>2 DEF Entry, AuditRow

LEMMA WriterSteps ==
    ASSUME TypeOK, NEW w \in Writer
    PROVE  /\ Begin(w) => Becomes(w, "open", tx[w].last, tx[w].rows)
           /\ Lock(w) => Becomes(w, "locked", tx[w].last, tx[w].rows)
           /\ ReadLast(w) => Becomes(w, "read", HashOfNewest(Seen(w)), tx[w].rows)
           /\ \A c \in Content :
                 Insert(w, c) => Becomes(w, "recorded", tx[w].last, tx[w].rows \cup {Entry(w, c)})
           /\ Ends(w) => Becomes(w, "idle", <<>>, {})
<1>0. PICK row \in TxRow : row = tx[w]
    BY TxKind DEF TxTable
<1>1. tx \in TxTable
    BY TxKind
<1>2. ASSUME Begin(w)
      PROVE  Becomes(w, "open", row.last, row.rows)
    <2>1. PICK new : new = [row EXCEPT !.at = "open"]
        OBVIOUS
    <2>2. tx' = [tx EXCEPT ![w] = new]
        BY <1>0, <1>1, <1>2, <2>1 DEF Begin, TxTable
    <2>3. new \in TxRow /\ new.at = "open" /\ new.last = row.last /\ new.rows = row.rows
        BY <2>1 DEF TxRow
    <2> QED
        BY <2>2, <2>3, Becoming
<1>3. ASSUME Lock(w)
      PROVE  Becomes(w, "locked", row.last, row.rows)
    <2>1. PICK new : new = [row EXCEPT !.at = "locked"]
        OBVIOUS
    <2>2. tx' = [tx EXCEPT ![w] = new]
        BY <1>0, <1>1, <1>3, <2>1 DEF Lock, TxTable
    <2>3. new \in TxRow /\ new.at = "locked" /\ new.last = row.last /\ new.rows = row.rows
        BY <2>1 DEF TxRow
    <2> QED
        BY <2>2, <2>3, Becoming
<1>4. ASSUME ReadLast(w)
      PROVE  Becomes(w, "read", HashOfNewest(Seen(w)), row.rows)
    <2>0. PICK h \in Seq(Content) : h = HashOfNewest(Seen(w))
        BY TxKind, HashTyped
    <2>1. PICK new : new = [row EXCEPT !.at = "read", !.last = h]
        OBVIOUS
    <2>2. tx' = [tx EXCEPT ![w] = new]
        BY <1>0, <1>1, <1>4, <2>0, <2>1 DEF ReadLast, TxTable, Seen
    <2>3. new \in TxRow /\ new.at = "read" /\ new.last = h /\ new.rows = row.rows
        BY <2>1 DEF TxRow
    <2> QED
        BY <2>0, <2>2, <2>3, Becoming
<1>5. ASSUME NEW c \in Content, Insert(w, c)
      PROVE  Becomes(w, "recorded", row.last, row.rows \cup {Entry(w, c)})
    <2>0. row.rows \in SUBSET AuditRow /\ Entry(w, c) \in AuditRow
        BY <1>0, <1>5, TxKind, EntryKind DEF Insert
    <2>1. PICK more \in SUBSET AuditRow : more = row.rows \cup {Entry(w, c)}
        BY <2>0
    <2>2. PICK new : new = [row EXCEPT !.at = "recorded", !.rows = more]
        OBVIOUS
    <2>3. tx' = [tx EXCEPT ![w] = new]
        BY <1>0, <1>1, <1>5, <2>1, <2>2 DEF Insert, TxTable
    <2>4. new \in TxRow /\ new.at = "recorded" /\ new.last = row.last /\ new.rows = more
        BY <2>2 DEF TxRow
    <2> QED
        BY <2>1, <2>3, <2>4, Becoming
<1>6. ASSUME Ends(w)
      PROVE  Becomes(w, "idle", <<>>, {})
    <2>1. PICK new : new = [at |-> "idle", last |-> <<>>, rows |-> {}]
        OBVIOUS
    <2>2. tx' = [tx EXCEPT ![w] = new]
        BY <1>6, <2>1 DEF Ends, Commit, RollBack, NoTx
    <2>3. new \in TxRow /\ new.at = "idle" /\ new.last = <<>> /\ new.rows = {}
        BY <2>1 DEF TxRow
    <2> QED
        BY <2>2, <2>3, Becoming
<1> QED
    BY <1>0, <1>2, <1>3, <1>4, <1>5, <1>6

-----------------------------------------------------------------------------
(* What damage does. *)
DamageKinds == {"edited", "removed", "newest removed", "exchanged"}

LEMMA DamageCounted ==
    ASSUME TypeOK, NEW what \in DamageKinds, Damage(what)
    PROVE  /\ damage' \in Seq(DamageKinds) /\ damage' # <<>> /\ Len(damage') = Len(damage) + 1
           /\ damage = <<>> => damage'[1] = what
           /\ Len(damage') = 1 => damage = <<>>
<1>1. damage \in Seq(DamageKinds) /\ damage' = Append(damage, what)
    BY DEF TypeOK, DamageKinds, Damage
<1>2. /\ damage' \in Seq(DamageKinds) /\ damage' # <<>> /\ Len(damage') = Len(damage) + 1
      /\ damage'[Len(damage) + 1] = what
    BY <1>1, AppendProperties
<1>3. Len(damage) \in Nat /\ (Len(damage) = 0 <=> damage = <<>>)
    BY <1>1
<1>4. ASSUME damage = <<>>
      PROVE  damage'[1] = what
    <2>1. Len(damage) + 1 = 1
        BY <1>3, <1>4
    <2> QED
        BY <1>2, <2>1
<1>5. ASSUME Len(damage') = 1
      PROVE  damage = <<>>
    <2>1. PICK n \in Nat : n = Len(damage)
        BY <1>3
    <2>2. n + 1 = 1
        BY <1>2, <1>5, <2>1
    <2>3. n = 0
        BY <2>2
    <2> QED
        BY <1>3, <2>1, <2>3
<1> QED
    BY <1>2, <1>4, <1>5

LEMMA Harmed ==
    ASSUME TypeOK, Ascending, Harms
    PROVE  /\ log' \in SUBSET AuditRow /\ Numbered(log')
           /\ \A r \in log' : \E q \in log : r.seq = q.seq
           /\ \E what \in DamageKinds :
                 /\ Damage(what)
                 /\ Chained(log) => \/ what = "newest removed"
                                    \/ \E r \in log' : ~Chains(r, log')
<1>0. log \in SUBSET AuditRow /\ Numbered(log)
    BY DEF TypeOK, Ascending
<1> DEFINE Goal ==
           /\ log' \in SUBSET AuditRow /\ Numbered(log')
           /\ \A r \in log' : \E q \in log : r.seq = q.seq
           /\ \E what \in DamageKinds :
                 /\ Damage(what)
                 /\ Chained(log) => \/ what = "newest removed"
                                    \/ \E r \in log' : ~Chains(r, log')
<1>1. ASSUME EditRow
      PROVE  Goal
    <2>0. PICK r \in log : \E c \in Content \ {r.content} :
             log' = (log \ {r}) \cup {[r EXCEPT !.content = c]} /\ Damage("edited")
        BY <1>1 DEF EditRow
    <2>1. PICK c \in Content \ {r.content} :
             log' = (log \ {r}) \cup {[r EXCEPT !.content = c]} /\ Damage("edited")
        BY <2>0
    <2>2. PICK n : n = [r EXCEPT !.content = c]
        OBVIOUS
    <2>3. n \in AuditRow /\ n.seq = r.seq
        BY <1>0, <2>2 DEF AuditRow
    <2>4. log' = (log \ {r}) \cup {n}
        BY <2>1, <2>2
    <2>5. log' \in SUBSET AuditRow /\ Numbered(log')
        BY <1>0, <2>3, <2>4 DEF Numbered
    <2>6. Chained(log) => ~Chains(n, log')
        BY <1>0, <2>2, <2>4, EditBreaks
    <2>7. \A q \in log' : \E o \in log : q.seq = o.seq
        BY <2>3, <2>4
    <2> QED
        BY <2>1, <2>4, <2>5, <2>6, <2>7 DEF DamageKinds
<1>2. ASSUME RemoveRow
      PROVE  Goal
    <2>1. PICK r \in log :
             log' = log \ {r} /\ Damage(IF r = Newest(log) THEN "newest removed" ELSE "removed")
        BY <1>2 DEF RemoveRow
    <2>2. log' \in SUBSET AuditRow /\ Numbered(log')
        BY <1>0, <2>1 DEF Numbered
    <2>3. Chained(log) /\ r # Newest(log) => \E q \in log' : ~Chains(q, log')
        BY <1>0, <2>1, RemovalBreaks
    <2>4. PICK what \in DamageKinds : /\ what = IF r = Newest(log) THEN "newest removed" ELSE "removed"
                                /\ Damage(what)
        BY <2>1 DEF DamageKinds
    <2>5. \A q \in log' : \E o \in log : q.seq = o.seq
        BY <2>1
    <2> QED
        BY <2>2, <2>3, <2>4, <2>5
<1>3. ASSUME ExchangeRows
      PROVE  Goal
    <2>1. PICK r \in log, s \in log :
             /\ r.seq < s.seq
             /\ log' = (log \ {r, s}) \cup {[r EXCEPT !.seq = s.seq], [s EXCEPT !.seq = r.seq]}
             /\ Damage("exchanged")
        BY <1>3 DEF ExchangeRows
    <2>2. PICK n, m : n = [r EXCEPT !.seq = s.seq] /\ m = [s EXCEPT !.seq = r.seq]
        OBVIOUS
    <2>3. n \in AuditRow /\ m \in AuditRow /\ n.seq = s.seq /\ m.seq = r.seq
        <3>1. r \in AuditRow /\ s \in AuditRow /\ r.seq \in 1..MaxSeq /\ s.seq \in 1..MaxSeq
            BY <1>0, RowKind
        <3>2. n \in AuditRow /\ n.seq = s.seq
            BY <2>2, <3>1 DEF AuditRow
        <3>3. m \in AuditRow /\ m.seq = r.seq
            BY <2>2, <3>1 DEF AuditRow
        <3> QED
            BY <3>2, <3>3
    <2>4. log' = (log \ {r, s}) \cup {n, m}
        BY <2>1, <2>2
    <2>5. log' \in SUBSET AuditRow
        BY <1>0, <2>3, <2>4
    <2>6. Numbered(log')
        <3>1. \A q \in log \ {r, s} : q.seq # r.seq /\ q.seq # s.seq
            BY <1>0 DEF Numbered
        <3>2. r.seq # s.seq
            BY <1>0, <2>1, RowKind
        <3> QED
            BY <1>0, <2>3, <2>4, <3>1, <3>2 DEF Numbered
    <2>7. Chained(log) => ~Chains(m, log')
        BY <1>0, <2>1, <2>2, <2>4, ExchangeBreaks
    <2>8. \A q \in log' : \E o \in log : q.seq = o.seq
        BY <2>3, <2>4
    <2> QED
        BY <2>1, <2>4, <2>5, <2>6, <2>7, <2>8 DEF DamageKinds
<1> QED
    BY <1>1, <1>2, <1>3 DEF Harms

-----------------------------------------------------------------------------
(* What writers do. *)
LEMMA SerialStep ==
    ASSUME TypeOK, Serial, [Next]_vars
    PROVE  Serial'
<1> SUFFICES ASSUME NEW v \in Writer
             PROVE  /\ tx'[v].at \in {"idle", "open", "locked"} => tx'[v].rows = {}
                    /\ tx'[v].at \in {"locked", "read", "recorded"}
                          => \A u \in Writer \ {v} : tx'[u].at \in {"idle", "open"}
    BY DEF Serial
<1>1. CASE UNCHANGED tx
    BY <1>1 DEF Serial
<1>2. ASSUME NEW w \in Writer, Begin(w)
      PROVE  /\ tx'[v].at \in {"idle", "open", "locked"} => tx'[v].rows = {}
             /\ tx'[v].at \in {"locked", "read", "recorded"}
                   => \A u \in Writer \ {v} : tx'[u].at \in {"idle", "open"}
    <2>1. Becomes(w, "open", tx[w].last, tx[w].rows) /\ tx[w].at = "idle"
        BY <1>2, WriterSteps DEF Begin
    <2> QED
        BY <2>1 DEF Becomes, Serial
<1>3. ASSUME NEW w \in Writer, Lock(w)
      PROVE  /\ tx'[v].at \in {"idle", "open", "locked"} => tx'[v].rows = {}
             /\ tx'[v].at \in {"locked", "read", "recorded"}
                   => \A u \in Writer \ {v} : tx'[u].at \in {"idle", "open"}
    <2>1. /\ Becomes(w, "locked", tx[w].last, tx[w].rows) /\ tx[w].at = "open"
          /\ \A u \in Writer : tx[u].at \in {"idle", "open"}
        BY <1>3, WriterSteps DEF Lock
    <2> QED
        BY <2>1 DEF Becomes, Serial
<1>4. ASSUME NEW w \in Writer, ReadLast(w)
      PROVE  /\ tx'[v].at \in {"idle", "open", "locked"} => tx'[v].rows = {}
             /\ tx'[v].at \in {"locked", "read", "recorded"}
                   => \A u \in Writer \ {v} : tx'[u].at \in {"idle", "open"}
    <2>1. /\ Becomes(w, "read", HashOfNewest(Seen(w)), tx[w].rows)
          /\ tx[w].at \in {"locked", "recorded"}
        BY <1>4, WriterSteps DEF ReadLast
    <2> QED
        BY <2>1 DEF Becomes, Serial
<1>5. ASSUME NEW w \in Writer, NEW c \in Content, Insert(w, c)
      PROVE  /\ tx'[v].at \in {"idle", "open", "locked"} => tx'[v].rows = {}
             /\ tx'[v].at \in {"locked", "read", "recorded"}
                   => \A u \in Writer \ {v} : tx'[u].at \in {"idle", "open"}
    <2>1. /\ Becomes(w, "recorded", tx[w].last, tx[w].rows \cup {Entry(w, c)})
          /\ tx[w].at = "read"
        BY <1>5, WriterSteps DEF Insert
    <2> QED
        BY <2>1 DEF Becomes, Serial
<1>6. ASSUME NEW w \in Writer, Ends(w)
      PROVE  /\ tx'[v].at \in {"idle", "open", "locked"} => tx'[v].rows = {}
             /\ tx'[v].at \in {"locked", "read", "recorded"}
                   => \A u \in Writer \ {v} : tx'[u].at \in {"idle", "open"}
    <2>1. Becomes(w, "idle", <<>>, {})
        BY <1>6, WriterSteps
    <2> QED
        BY <2>1 DEF Becomes, Serial
<1> QED
    BY <1>1, <1>2, <1>3, <1>4, <1>5, <1>6, Steps DEF Looks, Moves

(* A commit adds the committer's rows, and nobody else has any then. *)
LEMMA CommitAdds ==
    ASSUME TypeOK, Serial, NEW w \in Writer, Commit(w)
    PROVE  /\ log' = Seen(w) /\ Becomes(w, "idle", <<>>, {})
           /\ \A v \in Writer \ {w} : log' = log \/ (tx[v].rows = {} /\ tx[v].at # "read")
<1>1. log' = Seen(w) /\ Becomes(w, "idle", <<>>, {}) /\ tx[w].at \in {"open", "recorded"}
    BY WriterSteps DEF Commit, Ends, Seen
<1>2. tx[w].rows # {} => tx[w].at = "recorded"
    BY <1>1 DEF Serial
<1>3. ASSUME tx[w].at = "recorded", NEW v \in Writer \ {w}
      PROVE  tx[v].rows = {} /\ tx[v].at # "read"
    BY <1>3 DEF Serial
<1> QED
    BY <1>1, <1>2, <1>3 DEF Seen

LEMMA SeenNumbered ==
    ASSUME TypeOK, Ascending, NEW w \in Writer
    PROVE  Numbered(Seen(w)) /\ \A r \in Seen(w) : r.seq <= seq
<1>1. \A r \in Seen(w) : r.seq \in Nat
    BY TxKind, RowKind
<1> QED
    BY <1>1 DEF Ascending, Seen, Numbered

LEMMA AscendingStep ==
    ASSUME TypeOK, Serial, Ascending, [Next]_vars
    PROVE  Ascending'
<1>0. /\ log \in SUBSET AuditRow /\ seq \in Nat /\ \A r \in log : r.seq \in Nat
      /\ \A v \in Writer : tx[v].rows \in SUBSET AuditRow /\ \A r \in tx[v].rows : r.seq \in Nat
    <2>1. log \in SUBSET AuditRow /\ seq \in Nat
        BY StateKind
    <2>2. \A v \in Writer : tx[v].rows \in SUBSET AuditRow
        BY TxKind
    <2> QED
        BY <2>1, <2>2, RowKind
<1>1. ASSUME log' = log, seq' = seq,
             \A v \in Writer : tx'[v].rows = tx[v].rows \/ tx'[v].rows = {}
      PROVE  Ascending'
    BY <1>1 DEF Ascending, Numbered
<1>2. ASSUME Looks
      PROVE  Ascending'
    BY <1>1, <1>2 DEF Looks
<1>3. ASSUME NEW w \in Writer, Moves(w)
      PROVE  Ascending'
    <2>1. tx'[w].rows = tx[w].rows /\ \A v \in Writer \ {w} : tx'[v] = tx[v]
        BY <1>3, WriterSteps DEF Moves, Becomes
    <2>2. log' = log /\ seq' = seq
        BY <1>3 DEF Moves, Begin, Lock, ReadLast
    <2> QED
        BY <1>1, <2>1, <2>2
<1>4. ASSUME NEW w \in Writer, RollBack(w)
      PROVE  Ascending'
    <2>1. tx'[w].rows = {} /\ \A v \in Writer \ {w} : tx'[v] = tx[v]
        BY <1>4, WriterSteps DEF Ends, Becomes
    <2> QED
        BY <1>1, <1>4, <2>1 DEF RollBack
<1>5. ASSUME NEW w \in Writer, Commit(w)
      PROVE  Ascending'
    <2>1. log' = Seen(w) /\ tx'[w].rows = {} /\ seq' = seq
        BY <1>5, CommitAdds DEF Becomes, Commit
    <2>2. \A v \in Writer \ {w} : tx'[v] = tx[v] /\ (log' = log \/ tx[v].rows = {})
        BY <1>5, CommitAdds DEF Becomes
    <2>3. Numbered(log') /\ \A r \in log' : r.seq <= seq
        BY <2>1, SeenNumbered
    <2>4. ASSUME NEW v \in Writer
          PROVE  /\ Numbered(tx'[v].rows) /\ \A r \in tx'[v].rows : r.seq <= seq
                 /\ \A r \in log', s \in tx'[v].rows : r.seq < s.seq
        <3>1. CASE tx'[v].rows = {}
            BY <3>1 DEF Numbered
        <3>2. CASE tx'[v] = tx[v] /\ log' = log
            BY <3>2 DEF Ascending
        <3> QED
            BY <2>1, <2>2, <3>1, <3>2
    <2> QED
        BY <2>1, <2>3, <2>4 DEF Ascending, Numbered
<1>6. ASSUME NEW w \in Writer, NEW c \in Content, Insert(w, c)
      PROVE  Ascending'
    <2>1. /\ log' = log /\ seq' = seq + 1 /\ tx'[w].rows = tx[w].rows \cup {Entry(w, c)}
          /\ \A v \in Writer \ {w} : tx'[v] = tx[v]
        BY <1>6, WriterSteps DEF Insert, Becomes
    <2>2. PICK e \in AuditRow : e = Entry(w, c) /\ e.seq = seq + 1
        BY <1>6, EntryKind DEF Insert
    <2>3. \A r \in log' : r.seq <= seq'
        BY <1>0, <2>1 DEF Ascending
    <2>4. ASSUME NEW v \in Writer
          PROVE  /\ Numbered(tx'[v].rows) /\ \A r \in tx'[v].rows : r.seq <= seq'
                 /\ \A r \in log', s \in tx'[v].rows : r.seq < s.seq
        <3>0. /\ Numbered(tx[v].rows) /\ \A r \in tx[v].rows : r.seq <= seq
              /\ \A r \in log, s \in tx[v].rows : r.seq < s.seq
            BY DEF Ascending
        <3>1. CASE v # w
            <4>1. tx'[v] = tx[v]
                BY <2>1, <3>1
            <4> QED
                BY <1>0, <2>1, <3>0, <4>1
        <3>2. CASE v = w
            <4>1. tx'[v].rows = tx[v].rows \cup {e}
                BY <2>1, <2>2, <3>2
            <4>2. \A r \in tx[v].rows \cup log : r.seq < e.seq
                BY <1>0, <2>2, <3>0 DEF Ascending
            <4>3. Numbered(tx'[v].rows)
                BY <1>0, <2>2, <3>0, <4>1, <4>2 DEF Numbered
            <4> QED
                BY <1>0, <2>1, <2>2, <3>0, <4>1, <4>2, <4>3
        <3> QED
            BY <3>1, <3>2
    <2> QED
        BY <2>1, <2>3, <2>4 DEF Ascending, Numbered
<1>7. ASSUME Harms, UNCHANGED <<seq, tx>>
      PROVE  Ascending'
    <2>1. Numbered(log') /\ \A r \in log' : \E q \in log : r.seq = q.seq
        BY <1>7, Harmed
    <2>2. \A r \in log' : r.seq <= seq'
        BY <1>7, <2>1 DEF Ascending
    <2>3. \A v \in Writer : \A r \in log', s \in tx'[v].rows : r.seq < s.seq
        BY <1>7, <2>1 DEF Ascending
    <2> QED
        BY <1>7, <2>1, <2>2, <2>3 DEF Ascending, Numbered
<1> QED
    BY <1>2, <1>3, <1>4, <1>5, <1>6, <1>7, Steps DEF Ends

(* Without damage the log only grows, at its end. *)
LEMMA LogGrows ==
    ASSUME TypeOK, Serial, Ascending, [Next]_vars
    PROVE  \/ /\ damage' = damage /\ log \subseteq log' /\ log' \in SUBSET AuditRow
              /\ \A r \in log, s \in log' \ log : r.seq < s.seq
           \/ Harms /\ UNCHANGED <<seq, tx, verifier>>
<1>1. log \in SUBSET AuditRow
    BY DEF TypeOK
<1>2. ASSUME NEW w \in Writer, Commit(w)
      PROVE  /\ log \subseteq log' /\ log' \in SUBSET AuditRow
             /\ \A r \in log, s \in log' \ log : r.seq < s.seq
    <2>1. log' = Seen(w) /\ Seen(w) \in SUBSET AuditRow
        BY <1>2, TxKind, CommitAdds
    <2> QED
        BY <2>1 DEF Seen, Ascending
<1>3. ASSUME NEW w \in Writer,
             Moves(w) \/ RollBack(w) \/ \E c \in Content : Insert(w, c)
      PROVE  log' = log
    BY <1>3 DEF Moves, Begin, Lock, ReadLast, RollBack, Insert
<1> QED
    BY <1>1, <1>2, <1>3, Steps DEF Ends, Looks

LEMMA UnharmedStep ==
    ASSUME TypeOK, Serial, Ascending, Unharmed, [Next]_vars
    PROVE  Unharmed'
<1> SUFFICES ASSUME damage' = <<>>
             PROVE  /\ Chained(log')
                    /\ \A v \in Writer : /\ Chained(Seen(v)')
                                         /\ tx'[v].at = "read" => tx'[v].last = HashOfNewest(Seen(v)')
    BY DEF Unharmed, Chained, Lengthens, Chains, Below, HashOfNewest, Newest
<1> DEFINE Goal ==
           /\ Chained(log')
           /\ \A v \in Writer : /\ Chained(Seen(v)')
                                /\ tx'[v].at = "read" => tx'[v].last = HashOfNewest(Seen(v)')
<1>0. ASSUME damage = <<>>
      PROVE  /\ Chained(log)
             /\ \A v \in Writer : /\ Chained(Seen(v))
                                  /\ tx[v].at = "read" => tx[v].last = HashOfNewest(Seen(v))
    BY <1>0 DEF Unharmed
<1>1. CASE Looks
    <2>1. damage = <<>> /\ log' = log /\ tx' = tx /\ \A v \in Writer : Seen(v)' = Seen(v)
        BY <1>1 DEF Looks, Seen
    <2> QED
        BY <1>0, <2>1
<1>2. ASSUME NEW w \in Writer, Moves(w)
      PROVE  Goal
    <2>1. damage = <<>> /\ log' = log
        BY <1>2 DEF Moves, Begin, Lock, ReadLast
    <2>2. tx'[w].rows = tx[w].rows /\ \A v \in Writer \ {w} : tx'[v] = tx[v]
        BY <1>2, WriterSteps DEF Moves, Becomes
    <2>3. \A v \in Writer : Seen(v)' = Seen(v)
        BY <2>1, <2>2 DEF Seen
    <2>4. tx'[w].at = "read" => tx'[w].last = HashOfNewest(Seen(w))
        BY <1>2, WriterSteps DEF Moves, Becomes
    <2> QED
        BY <1>0, <2>1, <2>2, <2>3, <2>4
<1>3. ASSUME NEW w \in Writer, RollBack(w)
      PROVE  Goal
    <2>1. damage = <<>> /\ log' = log
        BY <1>3 DEF RollBack
    <2>2. tx'[w].at = "idle" /\ tx'[w].rows = {} /\ \A v \in Writer \ {w} : tx'[v] = tx[v]
        BY <1>3, WriterSteps DEF Ends, Becomes
    <2>3. Seen(w)' = log /\ \A v \in Writer \ {w} : Seen(v)' = Seen(v)
        BY <2>1, <2>2 DEF Seen
    <2>4. ASSUME NEW v \in Writer
          PROVE  /\ Chained(Seen(v)')
                 /\ tx'[v].at = "read" => tx'[v].last = HashOfNewest(Seen(v)')
        <3>1. CASE v = w
            BY <1>0, <2>1, <2>2, <2>3, <3>1
        <3>2. CASE v # w
            <4>1. Seen(v)' = Seen(v) /\ tx'[v] = tx[v]
                BY <2>2, <2>3, <3>2
            <4> QED
                BY <1>0, <2>1, <4>1
        <3> QED
            BY <3>1, <3>2
    <2> QED
        BY <1>0, <2>1, <2>4
<1>4. ASSUME NEW w \in Writer, Commit(w)
      PROVE  Goal
    <2>1. damage = <<>> /\ log' = Seen(w) /\ tx'[w].at = "idle" /\ tx'[w].rows = {}
        BY <1>4, CommitAdds DEF Commit, Becomes
    <2>2. Chained(log')
        BY <1>0, <2>1
    <2>3. ASSUME NEW v \in Writer
          PROVE  /\ Chained(Seen(v)')
                 /\ tx'[v].at = "read" => tx'[v].last = HashOfNewest(Seen(v)')
        <3>1. CASE tx'[v].rows = {} /\ tx'[v].at # "read"
            <4>1. Seen(v)' = log'
                BY <3>1 DEF Seen
            <4> QED
                BY <2>2, <3>1, <4>1
        <3>2. CASE tx'[v] = tx[v] /\ log' = log
            <4>1. Seen(v)' = Seen(v)
                BY <3>2 DEF Seen
            <4> QED
                BY <1>0, <2>1, <3>2, <4>1
        <3>3. \/ tx'[v].rows = {} /\ tx'[v].at # "read"
              \/ tx'[v] = tx[v] /\ log' = log
            BY <1>4, <2>1, CommitAdds DEF Becomes
        <3> QED
            BY <3>1, <3>2, <3>3
    <2> QED
        BY <2>2, <2>3
<1>5. ASSUME NEW w \in Writer, NEW c \in Content, Insert(w, c)
      PROVE  Goal
    <2>1. damage = <<>> /\ log' = log /\ tx[w].at = "read"
        BY <1>5 DEF Insert
    <2>2. /\ tx'[w].at = "recorded" /\ tx'[w].rows = tx[w].rows \cup {Entry(w, c)}
          /\ \A v \in Writer \ {w} : tx'[v] = tx[v]
        BY <1>5, WriterSteps DEF Becomes
    <2>3. PICK e \in AuditRow :
             /\ e = Entry(w, c) /\ e.seq = seq + 1 /\ e.prevHash = tx[w].last
             /\ e.hash = chainHash(e.content, e.prevHash)
        BY <1>5, EntryKind DEF Insert
    <2>4. Seen(w)' = Seen(w) \cup {e} /\ \A v \in Writer \ {w} : Seen(v)' = Seen(v)
        BY <2>1, <2>2, <2>3 DEF Seen
    <2>5. Seen(w) \in SUBSET AuditRow /\ Numbered(Seen(w)) /\ Chained(Seen(w))
        BY <1>0, <2>1, TxKind, SeenNumbered
    <2>6. \A r \in Seen(w) : r.seq < e.seq
        <3>1. \A r \in Seen(w) : r.seq <= seq /\ r.seq \in Nat
            BY <2>5, RowKind, SeenNumbered
        <3> QED
            BY <2>3, <3>1, TxKind
    <2>7. e.prevHash = HashOfNewest(Seen(w))
        BY <1>0, <2>1, <2>3
    <2>8. Chained(Seen(w)')
        BY <2>3, <2>4, <2>5, <2>6, <2>7, Appended
    <2>9. ASSUME NEW v \in Writer
          PROVE  /\ Chained(Seen(v)')
                 /\ tx'[v].at = "read" => tx'[v].last = HashOfNewest(Seen(v)')
        <3>1. CASE v = w
            BY <2>2, <2>8, <3>1
        <3>2. CASE v # w
            <4>1. Seen(v)' = Seen(v) /\ tx'[v] = tx[v]
                BY <2>2, <2>4, <3>2
            <4> QED
                BY <1>0, <2>1, <4>1
        <3> QED
            BY <3>1, <3>2
    <2> QED
        BY <1>0, <2>1, <2>9
<1>6. CASE Harms
    BY <1>6, Harmed, DamageCounted
<1> QED
    BY <1>1, <1>2, <1>3, <1>4, <1>5, <1>6, Steps DEF Ends

LEMMA MarkedStep ==
    ASSUME TypeOK, Serial, Ascending, Unharmed, Marked, [Next]_vars
    PROVE  Marked'
<1> SUFFICES ASSUME Len(damage') = 1, damage'[1] # "newest removed"
             PROVE  \E r \in log' : ~Chains(r, log')
    BY DEF Marked, Chains, Below, HashOfNewest, Newest
<1>1. CASE /\ damage' = damage /\ log \subseteq log' /\ log' \in SUBSET AuditRow
           /\ \A r \in log, s \in log' \ log : r.seq < s.seq
    <2>1. PICK r \in log : ~Chains(r, log)
        BY <1>1 DEF Marked
    <2>2. ~Chains(r, log')
        BY <1>1, <2>1, SamePast
    <2> QED
        BY <1>1, <2>1, <2>2
<1>2. CASE Harms
    <2>1. PICK what \in DamageKinds :
             /\ Damage(what)
             /\ Chained(log) => \/ what = "newest removed"
                                \/ \E r \in log' : ~Chains(r, log')
        BY <1>2, Harmed
    <2>2. damage = <<>>
        BY <2>1, DamageCounted
    <2>3. damage'[1] = what
        BY <2>1, <2>2, DamageCounted
    <2>4. Chained(log)
        BY <2>2 DEF Unharmed
    <2> QED
        BY <2>1, <2>3, <2>4
<1> QED
    BY <1>1, <1>2, LogGrows

-----------------------------------------------------------------------------
(* What a verification reads. *)
LEMMA BatchKind ==
    ASSUME TypeOK, Ascending
    PROVE  /\ Batch \in SUBSET AuditRow /\ Batch \subseteq log /\ Numbered(Batch)
           /\ \A r \in Batch : verifier.after < r.seq
           /\ Batch # {} => /\ Newest(Batch) \in Batch
                            /\ \A r \in Batch : r.seq <= Newest(Batch).seq
           /\ \A b \in Batch, r \in log :
                 verifier.after < r.seq /\ r.seq <= b.seq => r \in Batch
           /\ Batch = {} => \A r \in log : r.seq <= verifier.after
<1> DEFINE rest == {r \in log : r.seq > verifier.after}
<1>1. /\ verifier.after \in Nat /\ log \in SUBSET AuditRow /\ Numbered(log)
      /\ \A r \in log : r.seq \in 1..MaxSeq /\ r.seq \in Nat
      /\ VerifyBatch \in Nat \ {0} /\ MaxSeq \in Nat
    <2>1. verifier.after \in Nat /\ log \in SUBSET AuditRow
        BY StateKind
    <2> QED
        BY <2>1, RowKind, AuditAssumption DEF Ascending
<1>2. /\ rest \in SUBSET AuditRow /\ rest \subseteq log /\ Numbered(rest)
      /\ \A r \in rest : verifier.after < r.seq
    BY <1>1 DEF Numbered
<1>3. Batch = {r \in rest : Cardinality({s \in rest : s.seq < r.seq}) < VerifyBatch}
    BY DEF Batch
<1>4. \A r \in log : r \in rest \/ r.seq <= verifier.after
    BY <1>1
<1> HIDE DEF rest
<1>5. Batch \in SUBSET AuditRow /\ Batch \subseteq log /\ Batch \subseteq rest
    BY <1>2, <1>3
<1>6. Numbered(Batch) /\ \A r \in Batch : verifier.after < r.seq
    BY <1>2, <1>5 DEF Numbered
<1>7. Batch # {} => Newest(Batch) \in Batch /\ \A r \in Batch : r.seq <= Newest(Batch).seq
    BY <1>5, NewestIs
<1>8. ASSUME NEW b \in Batch, NEW r \in log, verifier.after < r.seq, r.seq <= b.seq
      PROVE  r \in Batch
    <2> DEFINE few == {s \in rest : s.seq < r.seq}
               more == {s \in rest : s.seq < b.seq}
    <2>1. few \subseteq more
        BY <1>1, <1>2, <1>5, <1>8
    <2>2. IsFiniteSet(more)
        <3>1. more \in SUBSET AuditRow /\ Numbered(more)
            BY <1>2 DEF Numbered
        <3>2. \A s \in more : 0 < s.seq /\ s.seq <= MaxSeq
            BY <1>1, <1>2
        <3> HIDE DEF more
        <3> QED
            BY <1>1, <3>1, <3>2, RowsCounted
    <2>3. Cardinality(more) < VerifyBatch
        BY <1>3
    <2>4. Cardinality(few) \in Nat /\ Cardinality(more) \in Nat
          /\ Cardinality(few) <= Cardinality(more)
        <3> HIDE DEF few, more
        <3> QED
            BY <2>1, <2>2, FS_Subset, FS_CardinalityType
    <2>5. Cardinality(few) < VerifyBatch
        <3> HIDE DEF few, more
        <3> QED
            BY <1>1, <2>3, <2>4
    <2>6. r \in rest
        BY <1>1, <1>4, <1>8
    <2> QED
        BY <1>3, <2>5, <2>6
<1>9. ASSUME rest # {}
      PROVE  Batch # {}
    <2>1. PICK r \in rest : \A s \in rest : r.seq <= s.seq
        BY <1>2, <1>9, NewestIs
    <2>2. {s \in rest : s.seq < r.seq} = {}
        BY <1>1, <1>2, <2>1
    <2>3. Cardinality({s \in rest : s.seq < r.seq}) = 0
        BY <2>2, FS_EmptySet
    <2> QED
        BY <1>1, <1>3, <2>1, <2>3
<1> QED
    BY <1>4, <1>5, <1>6, <1>7, <1>8, <1>9

(* A batch is checked against the rows before it in the log. *)
LEMMA FitsIsChains ==
    ASSUME TypeOK, Ascending, verifier.prev = HashOfNewest(UpTo(verifier.after, log)),
           NEW r \in Batch
    PROVE  Fits(r, Batch) <=> Chains(r, log)
<1> DEFINE earlier == {s \in Batch : s.seq < r.seq}
<1>1. /\ verifier.after \in Nat /\ log \in SUBSET AuditRow /\ Numbered(log)
      /\ \A s \in log : s.seq \in Nat
    <2>1. verifier.after \in Nat /\ log \in SUBSET AuditRow
        BY StateKind
    <2> QED
        BY <2>1, RowKind DEF Ascending
<1>2. r \in log /\ verifier.after < r.seq /\ earlier \subseteq log
    BY BatchKind
<1>3. \A s \in log : s.seq < r.seq => s.seq <= verifier.after \/ s \in earlier
    <2> SUFFICES ASSUME NEW s \in log, s.seq < r.seq, ~(s.seq <= verifier.after)
                 PROVE  s \in Batch
        OBVIOUS
    <2>1. verifier.after < s.seq /\ s.seq <= r.seq
        BY <1>1, <1>2
    <2> QED
        BY <2>1, BatchKind
<1>4. Before(r, Batch) = HashOfNewest(Below(r.seq, log))
    <2>1. CASE earlier = {}
        <3>1. Below(r.seq, log) = UpTo(verifier.after, log)
            BY <1>1, <1>2, <1>3, <2>1 DEF Below, UpTo
        <3> QED
            BY <2>1, <3>1 DEF Before
    <2>2. CASE earlier # {}
        <3>1. earlier \in SUBSET AuditRow
            BY <1>1, <1>2
        <3>2. Before(r, Batch) = Newest(earlier).hash
            BY <2>2 DEF Before
        <3>3. Newest(earlier) \in earlier /\ \A s \in earlier : s.seq <= Newest(earlier).seq
            <4> HIDE DEF earlier
            <4> QED
                BY <2>2, <3>1, NewestIs
        <3>4. PICK n \in earlier : n = Newest(earlier) /\ \A s \in earlier : s.seq <= n.seq
            BY <3>3
        <3>5. n \in log /\ n.seq < r.seq /\ verifier.after < n.seq
            BY <1>2, <3>4, BatchKind
        <3>6. Below(r.seq, log) \in SUBSET AuditRow /\ Numbered(Below(r.seq, log))
              /\ n \in Below(r.seq, log)
            BY <1>1, <3>5 DEF Below, Numbered
        <3>7. \A s \in Below(r.seq, log) : s.seq <= n.seq
            BY <1>1, <1>3, <3>4, <3>5 DEF Below
        <3>8. HashOfNewest(Below(r.seq, log)) = n.hash
            BY <3>6, <3>7, NewestOnly
        <3> QED
            BY <3>2, <3>4, <3>8
    <2> QED
        BY <2>1, <2>2
<1> QED
    BY <1>4 DEF Fits, Chains

-----------------------------------------------------------------------------
(* What a verification does. *)
Starts ==
    /\ verifier' \in VerifierRow /\ verifier'.at = "reading"
    /\ verifier'.prev = <<>> /\ verifier'.after = 0 /\ verifier'.checked = 0
    /\ verifier'.before = log /\ verifier'.sound = (damage = <<>>)
Passes ==
    /\ verifier' \in VerifierRow /\ verifier'.at = verifier.at
    /\ verifier'.prev = Newest(Batch).hash /\ verifier'.after = Newest(Batch).seq
    /\ verifier'.checked = verifier.checked + Cardinality(Batch)
    /\ verifier'.before = verifier.before /\ verifier'.sound = verifier.sound
Reports(result) ==
    /\ verifier' \in VerifierRow /\ verifier'.at = "reported" /\ verifier'.intact = result
    /\ verifier'.after = verifier.after /\ verifier'.checked = verifier.checked
    /\ verifier'.before = verifier.before /\ verifier'.sound = verifier.sound

LEMMA BatchCounted ==
    ASSUME TypeOK, Ascending, Counts, Batch # {}
    PROVE  /\ Newest(Batch).seq \in 0..MaxSeq /\ Newest(Batch).hash \in Seq(Content)
           /\ Cardinality(Batch) \in Nat
           /\ verifier.checked + Cardinality(Batch) <= Newest(Batch).seq
           /\ verifier.checked + Cardinality(Batch) \in 0..MaxSeq
<1>1. PICK n \in Batch : n = Newest(Batch) /\ \A r \in Batch : r.seq <= n.seq
    BY BatchKind
<1>2. /\ Batch \in SUBSET AuditRow /\ Numbered(Batch)
      /\ \A r \in Batch : verifier.after < r.seq /\ r.seq <= n.seq
    BY <1>1, BatchKind
<1>3. n.seq \in 1..MaxSeq /\ n.seq \in Nat /\ n.hash \in Seq(Content)
    BY <1>1, <1>2, RowKind
<1>4. verifier.after \in Nat /\ verifier.after <= n.seq
    BY <1>1, <1>2, <1>3, StateKind
<1>5. Cardinality(Batch) \in Nat /\ Cardinality(Batch) <= n.seq - verifier.after
    BY <1>2, <1>3, <1>4, RowsCounted
<1>6. PICK k \in Nat : k = Cardinality(Batch)
    BY <1>5
<1>7. verifier.checked \in Nat /\ verifier.checked <= verifier.after /\ MaxSeq \in Nat
    BY StateKind DEF Counts
<1>8. verifier.checked + k <= n.seq
    BY <1>3, <1>4, <1>5, <1>6, <1>7
<1>9. verifier.checked + k \in 0..MaxSeq
    BY <1>3, <1>6, <1>7, <1>8
<1> QED
    BY <1>1, <1>3, <1>5, <1>6, <1>7, <1>8, <1>9

LEMMA VerifierSteps ==
    ASSUME TypeOK, Ascending, Counts
    PROVE  /\ StartVerify => Starts
           /\ VerifyNextBatch =>
                 /\ verifier.at = "reading"
                 /\ \/ Batch = {} /\ Reports(TRUE)
                    \/ (\E r \in Batch : ~Fits(r, Batch)) /\ Reports(FALSE)
                    \/ Batch # {} /\ (\A r \in Batch : Fits(r, Batch)) /\ Passes
<1>1. ASSUME StartVerify
      PROVE  Starts
    <2>1. log \in SUBSET AuditRow /\ 0 \in 0..MaxSeq /\ <<>> \in Seq(Content)
        BY StateKind
    <2>2. PICK sound \in BOOLEAN : sound = (damage = <<>>)
        OBVIOUS
    <2>3. verifier' = [at |-> "reading", prev |-> <<>>, after |-> 0, checked |-> 0,
                       intact |-> TRUE, before |-> log, sound |-> sound]
        BY <1>1, <2>2 DEF StartVerify, NotVerifying
    <2> QED
        BY <2>1, <2>2, <2>3 DEF Starts, VerifierRow
<1>2. ASSUME NEW result \in BOOLEAN, Report(result)
      PROVE  Reports(result)
    <2>1. verifier \in VerifierRow
        BY StateKind
    <2>2. verifier' = [verifier EXCEPT !.at = "reported", !.intact = result]
        BY <1>2 DEF Report
    <2> QED
        BY <2>1, <2>2 DEF Reports, VerifierRow
<1>3. ASSUME Batch # {},
             verifier' = [verifier EXCEPT !.prev = Newest(Batch).hash,
                                          !.after = Newest(Batch).seq,
                                          !.checked = @ + Cardinality(Batch)]
      PROVE  Passes
    <2>1. PICK hash \in Seq(Content), last \in 0..MaxSeq, count \in 0..MaxSeq :
             /\ hash = Newest(Batch).hash /\ last = Newest(Batch).seq
             /\ count = verifier.checked + Cardinality(Batch)
        BY <1>3, BatchCounted
    <2>2. verifier \in VerifierRow
        BY StateKind
    <2>3. verifier' = [verifier EXCEPT !.prev = hash, !.after = last, !.checked = count]
        BY <1>3, <2>1, <2>2 DEF VerifierRow
    <2>4. /\ verifier' \in VerifierRow /\ verifier'.at = verifier.at
          /\ verifier'.prev = hash /\ verifier'.after = last /\ verifier'.checked = count
          /\ verifier'.before = verifier.before /\ verifier'.sound = verifier.sound
        BY <2>2, <2>3 DEF VerifierRow
    <2> QED
        BY <2>1, <2>4 DEF Passes
<1>4. ASSUME VerifyNextBatch
      PROVE  /\ verifier.at = "reading"
             /\ \/ Batch = {} /\ Reports(TRUE)
                \/ (\E r \in Batch : ~Fits(r, Batch)) /\ Reports(FALSE)
                \/ Batch # {} /\ (\A r \in Batch : Fits(r, Batch)) /\ Passes
    BY <1>2, <1>3, <1>4 DEF VerifyNextBatch
<1> QED
    BY <1>1, <1>4

LEMMA CountsStep ==
    ASSUME TypeOK, Serial, Ascending, Counts, [Next]_vars
    PROVE  Counts'
<1>1. CASE UNCHANGED <<verifier, damage>>
    BY <1>1 DEF Counts
<1>2. CASE StartVerify /\ UNCHANGED damage
    <2>1. /\ verifier'.after = 0 /\ verifier'.checked = 0
          /\ damage = <<>> => verifier'.sound
        BY <1>2, VerifierSteps DEF Starts
    <2> QED
        BY <1>2, <2>1 DEF Counts
<1>3. CASE VerifyNextBatch /\ UNCHANGED damage
    <2>1. ASSUME NEW result \in BOOLEAN, Reports(result)
          PROVE  Counts'
        BY <1>3, <2>1 DEF Reports, Counts
    <2>2. ASSUME Batch # {}, Passes
          PROVE  Counts'
        BY <1>3, <2>2, BatchCounted DEF Passes, Counts
    <2> QED
        BY <1>3, <2>1, <2>2, VerifierSteps
<1>4. CASE Harms /\ UNCHANGED verifier
    <2>1. damage' # <<>>
        BY <1>4, Harmed, DamageCounted
    <2> QED
        BY <1>4, <2>1 DEF Counts
<1> QED
    BY <1>1, <1>2, <1>3, <1>4, Steps DEF Looks

LEMMA TypeStep ==
    ASSUME TypeOK, Serial, Ascending, Counts, [Next]_vars
    PROVE  TypeOK'
<1>1. log' \in SUBSET AuditRow
    BY LogGrows, Harmed
<1>2. seq' \in 0..MaxSeq
    <2>1. ASSUME NEW w \in Writer, NEW c \in Content, Insert(w, c)
          PROVE  seq' \in 0..MaxSeq
        BY <2>1, StateKind DEF Insert
    <2>2. ASSUME NEW w \in Writer, Moves(w) \/ Ends(w)
          PROVE  seq' = seq
        BY <2>2 DEF Moves, Ends, Begin, Lock, ReadLast, Commit, RollBack
    <2> QED
        BY <2>1, <2>2, Steps, StateKind DEF Looks
<1>3. tx' \in TxTable
    <2>1. tx \in TxTable
        BY DEF TypeOK, TxTable, TxRow
    <2>2. ASSUME NEW w \in Writer, Moves(w) \/ Ends(w) \/ \E c \in Content : Insert(w, c)
          PROVE  tx' \in TxTable
        BY <2>2, WriterSteps DEF Moves, Becomes
    <2> QED
        BY <2>1, <2>2, Steps DEF Looks
<1>4. verifier' \in VerifierRow
    <2>1. verifier \in VerifierRow
        BY StateKind
    <2>2. CASE StartVerify \/ VerifyNextBatch
        BY <2>2, VerifierSteps DEF Starts, Reports, Passes
    <2> QED
        BY <2>1, <2>2, Steps
<1>5. damage' \in Seq(DamageKinds)
    <2>1. damage \in Seq(DamageKinds)
        BY DEF TypeOK, DamageKinds
    <2>2. CASE Harms
        BY <2>2, Harmed, DamageCounted
    <2> QED
        BY <2>1, <2>2, Steps DEF Looks
<1> QED
    BY <1>1, <1>2, <1>3, <1>4, <1>5 DEF TypeOK, TxTable, TxRow, VerifierRow, DamageKinds

(* The rows a verification has passed stay as they were while writers commit. *)
LEMMA PastStays ==
    ASSUME NEW rows, NEW more, rows \subseteq more, more \in SUBSET AuditRow,
           \A r \in rows, s \in more \ rows : r.seq < s.seq,
           NEW n \in Nat, n = 0 \/ \E r \in rows : r.seq = n
    PROVE  UpTo(n, more) = UpTo(n, rows)
<1>1. \A s \in more : s.seq \in Nat /\ s.seq > 0
    <2>1. \A s \in more : s.seq \in 1..MaxSeq /\ s.seq \in Nat
        BY RowKind
    <2> QED
        BY <2>1, AuditAssumption
<1>2. \A s \in more \ rows : ~(s.seq <= n)
    BY <1>1
<1> QED
    BY <1>2 DEF UpTo

(* A batch that fits moves the verification on to its last row. *)
LEMMA BatchPassed ==
    ASSUME TypeOK, Ascending, Batch # {}, NEW n, n = Newest(Batch)
    PROVE  /\ n \in log /\ UpTo(n.seq, log) = UpTo(verifier.after, log) \cup Batch
           /\ n.hash = HashOfNewest(UpTo(n.seq, log))
           /\ Cardinality(UpTo(n.seq, log))
                  = Cardinality(UpTo(verifier.after, log)) + Cardinality(Batch)
<1>1. /\ log \in SUBSET AuditRow /\ Numbered(log) /\ verifier.after \in Nat /\ MaxSeq \in Nat
      /\ \A r \in log : r.seq \in Nat /\ 0 < r.seq /\ r.seq <= MaxSeq
    <2>1. log \in SUBSET AuditRow /\ verifier.after \in Nat /\ MaxSeq \in Nat
        BY StateKind
    <2>2. \A r \in log : r.seq \in 1..MaxSeq /\ r.seq \in Nat
        BY <2>1, RowKind
    <2> QED
        BY <2>1, <2>2 DEF Ascending
<1>2. n \in Batch /\ n \in log /\ verifier.after < n.seq /\ n.seq \in Nat
    BY <1>1, BatchKind
<1>3. \A r \in Batch : r \in log /\ r.seq <= n.seq /\ verifier.after < r.seq
    BY BatchKind
<1>4. \A r \in log : verifier.after < r.seq /\ r.seq <= n.seq => r \in Batch
    BY <1>2, BatchKind
<1> DEFINE past == UpTo(verifier.after, log)
           next == UpTo(n.seq, log)
<1>5. next = past \cup Batch /\ past \cap Batch = {}
    <2>1. \A r \in log : r.seq <= n.seq => r.seq <= verifier.after \/ r \in Batch
        BY <1>1, <1>2, <1>4
    <2>2. \A r \in log : r.seq <= verifier.after => r.seq <= n.seq /\ r \notin Batch
        BY <1>1, <1>2, <1>3
    <2> QED
        BY <1>3, <2>1, <2>2 DEF UpTo
<1>6. n.hash = HashOfNewest(next)
    <2>1. next \in SUBSET AuditRow /\ Numbered(next) /\ n \in next
        BY <1>1, <1>2 DEF UpTo, Numbered
    <2>2. \A r \in next : r.seq <= n.seq
        BY DEF UpTo
    <2> HIDE DEF next
    <2> QED
        BY <2>1, <2>2, NewestOnly
<1>7. IsFiniteSet(past) /\ IsFiniteSet(Batch)
      /\ Cardinality(past) \in Nat /\ Cardinality(Batch) \in Nat
    <2>1. past \in SUBSET AuditRow /\ Numbered(past)
          /\ \A r \in past : 0 < r.seq /\ r.seq <= MaxSeq
        BY <1>1 DEF UpTo, Numbered
    <2>2. Batch \in SUBSET AuditRow /\ Numbered(Batch)
          /\ \A r \in Batch : 0 < r.seq /\ r.seq <= MaxSeq
        BY <1>1, BatchKind
    <2> HIDE DEF past
    <2> QED
        BY <1>1, <2>1, <2>2, RowsCounted
<1>8. Cardinality(past \cup Batch) = Cardinality(past) + Cardinality(Batch)
    <2> HIDE DEF past
    <2>1. Cardinality(past \cup Batch)
             = Cardinality(past) + Cardinality(Batch) - Cardinality(past \cap Batch)
        BY <1>7, FS_Union
    <2>2. Cardinality(past \cap Batch) = 0
        BY <1>5, FS_EmptySet
    <2> QED
        BY <1>7, <2>1, <2>2
<1> QED
    BY <1>2, <1>5, <1>6, <1>8

LEMMA WalkingStep ==
    ASSUME TypeOK, Serial, Ascending, Marked, Walking, Counts, [Next]_vars
    PROVE  Walking'
<1> DEFINE Goal ==
           /\ verifier'.after = 0 \/ \E r \in log' : r.seq = verifier'.after
           /\ verifier'.prev = HashOfNewest(UpTo(verifier'.after, log'))
           /\ verifier'.checked = Cardinality(UpTo(verifier'.after, log'))
           /\ verifier'.before \subseteq log'
           /\ ~verifier'.sound /\ damage'[1] # "newest removed"
                => \E r \in log' : r.seq > verifier'.after /\ ~Chains(r, log')
<1> SUFFICES ASSUME verifier'.at = "reading",
                    IF verifier'.sound THEN damage' = <<>> ELSE Len(damage') = 1
             PROVE  Goal
    BY DEF Walking, Undisturbed, UpTo, Chains, Below, HashOfNewest, Newest
<1>0. /\ log \in SUBSET AuditRow /\ verifier.after \in Nat
      /\ \A r \in log : r.seq \in Nat /\ r.seq > 0
    <2>1. log \in SUBSET AuditRow /\ verifier.after \in Nat /\ MaxSeq \in Nat
        BY StateKind
    <2>2. \A r \in log : r.seq \in 1..MaxSeq /\ r.seq \in Nat
        BY <2>1, RowKind
    <2> QED
        BY <2>1, <2>2
<1>1. ASSUME verifier' = verifier, damage' = damage, log \subseteq log', log' \in SUBSET AuditRow,
             \A r \in log, s \in log' \ log : r.seq < s.seq
      PROVE  Goal
    <2>1. Undisturbed
        BY <1>1 DEF Undisturbed
    <2>2. /\ verifier.after = 0 \/ \E r \in log : r.seq = verifier.after
          /\ verifier.prev = HashOfNewest(UpTo(verifier.after, log))
          /\ verifier.checked = Cardinality(UpTo(verifier.after, log))
          /\ verifier.before \subseteq log
          /\ ~verifier.sound /\ damage[1] # "newest removed"
                => \E r \in log : r.seq > verifier.after /\ ~Chains(r, log)
        BY <2>1 DEF Walking
    <2>3. UpTo(verifier.after, log') = UpTo(verifier.after, log)
        BY <1>0, <1>1, <2>2, PastStays
    <2>4. \A r \in log : r \in log' /\ (Chains(r, log') <=> Chains(r, log))
        BY <1>1, SamePast
    <2>5. ~verifier.sound /\ damage[1] # "newest removed"
             => \E r \in log' : r.seq > verifier.after /\ ~Chains(r, log')
        BY <2>2, <2>4
    <2>6. verifier.before \subseteq log'
        BY <2>2, <2>4
    <2>7. verifier.after = 0 \/ \E r \in log' : r.seq = verifier.after
        BY <2>2, <2>4
    <2> QED
        BY <1>1, <2>2, <2>3, <2>5, <2>6, <2>7
<1>2. CASE Harms /\ UNCHANGED verifier
    <2>1. damage' # <<>> /\ (Len(damage') = 1 => damage = <<>>)
        BY <1>2, Harmed, DamageCounted
    <2> QED
        BY <1>2, <2>1 DEF Counts
<1>3. CASE StartVerify /\ Looks
    <2>1. /\ verifier'.prev = <<>> /\ verifier'.after = 0 /\ verifier'.checked = 0
          /\ verifier'.before = log /\ log' = log /\ damage' = damage
        BY <1>3, VerifierSteps DEF Starts, Looks
    <2>2. UpTo(0, log) = {}
        BY <1>0 DEF UpTo
    <2>3. HashOfNewest({}) = <<>> /\ Cardinality({}) = 0
        BY FS_EmptySet DEF HashOfNewest
    <2>4. ASSUME ~verifier'.sound, damage'[1] # "newest removed"
          PROVE  \E r \in log : r.seq > 0 /\ ~Chains(r, log)
        <3>1. Len(damage) = 1
            BY <2>1, <2>4
        <3>2. PICK r \in log : ~Chains(r, log)
            BY <2>1, <2>4, <3>1 DEF Marked
        <3> QED
            BY <1>0, <3>2
    <2> QED
        BY <2>1, <2>2, <2>3, <2>4
<1>4. CASE VerifyNextBatch /\ Looks
    <2>1. /\ verifier.at = "reading" /\ Batch # {} /\ Passes
          /\ \A r \in Batch : Fits(r, Batch)
        BY <1>4, VerifierSteps DEF Reports
    <2>2. PICK n \in Batch : n = Newest(Batch)
        BY <2>1, BatchKind
    <2>3. /\ verifier'.prev = n.hash /\ verifier'.after = n.seq
          /\ verifier'.checked = verifier.checked + Cardinality(Batch)
          /\ verifier'.before = verifier.before /\ verifier'.sound = verifier.sound
          /\ log' = log /\ damage' = damage
        BY <1>4, <2>1, <2>2 DEF Passes, Looks
    <2>4. Undisturbed
        BY <2>1, <2>3 DEF Undisturbed
    <2>5. /\ verifier.prev = HashOfNewest(UpTo(verifier.after, log))
          /\ verifier.checked = Cardinality(UpTo(verifier.after, log))
          /\ verifier.before \subseteq log
          /\ ~verifier.sound /\ damage[1] # "newest removed"
                => \E r \in log : r.seq > verifier.after /\ ~Chains(r, log)
        BY <2>4 DEF Walking
    <2>6. /\ n \in log /\ n.hash = HashOfNewest(UpTo(n.seq, log))
          /\ Cardinality(UpTo(n.seq, log))
                 = Cardinality(UpTo(verifier.after, log)) + Cardinality(Batch)
        BY <2>1, <2>2, BatchPassed
    <2>7. ASSUME ~verifier.sound, damage[1] # "newest removed"
          PROVE  \E r \in log : r.seq > n.seq /\ ~Chains(r, log)
        <3>1. PICK r \in log : r.seq > verifier.after /\ ~Chains(r, log)
            BY <2>5, <2>7
        <3>2. r \notin Batch
            BY <2>1, <2>5, <3>1, FitsIsChains
        <3>3. ~(r.seq <= n.seq)
            BY <1>0, <3>1, <3>2, BatchKind
        <3> QED
            BY <1>0, <2>6, <3>1, <3>3
    <2> QED
        BY <2>3, <2>5, <2>6, <2>7
<1>5. ASSUME NEW w \in Writer, Moves(w) \/ Ends(w) \/ \E c \in Content : Insert(w, c),
             UNCHANGED <<verifier, damage>>
      PROVE  Goal
    <2>1. damage # damage' \/ ~Harms
        BY Harmed, DamageCounted
    <2> QED
        BY <1>1, <1>5, <2>1, LogGrows
<1>6. CASE Looks /\ UNCHANGED verifier
    BY <1>0, <1>1, <1>6 DEF Looks
<1> QED
    BY <1>2, <1>3, <1>4, <1>5, <1>6, Steps

LEMMA VerdictStep ==
    ASSUME TypeOK, Ascending, Unharmed, Walking, Counts, VerifierIsRight, [Next]_vars
    PROVE  VerifierIsRight'
<1> DEFINE Goal ==
           /\ damage' = <<>> => verifier'.intact
           /\ verifier'.intact /\ damage' = <<>>
                => Cardinality(verifier'.before) <= verifier'.checked
           /\ ~verifier'.sound /\ Len(damage') = 1 /\ damage'[1] # "newest removed"
                => ~verifier'.intact
<1> SUFFICES ASSUME verifier'.at = "reported"
             PROVE  Goal
    BY DEF VerifierIsRight, NoFalseAlarm, ChecksEverything, DamageShows
<1>1. CASE UNCHANGED <<verifier, damage>>
    BY <1>1 DEF VerifierIsRight, NoFalseAlarm, ChecksEverything, DamageShows
<1>2. CASE Harms /\ UNCHANGED verifier
    <2>1. damage' # <<>> /\ (Len(damage') = 1 => damage = <<>>)
        BY <1>2, Harmed, DamageCounted
    <2> QED
        BY <1>2, <2>1 DEF Counts
<1>3. CASE StartVerify /\ Looks
    BY <1>3, VerifierSteps DEF Starts
<1>4. ASSUME verifier.at = "reading", UNCHANGED damage, Batch = {}, Reports(TRUE)
      PROVE  Goal
    <2>1. \A r \in log : r.seq <= verifier.after
        BY <1>4, BatchKind
    <2>2. /\ verifier'.intact /\ verifier'.before = verifier.before
          /\ verifier'.checked = verifier.checked /\ verifier'.sound = verifier.sound
        BY <1>4 DEF Reports
    <2>3. ASSUME damage = <<>>
          PROVE  Cardinality(verifier.before) <= verifier.checked
        <3>1. Undisturbed
            BY <1>4, <2>3 DEF Undisturbed, Counts
        <3>2. /\ verifier.checked = Cardinality(UpTo(verifier.after, log))
              /\ verifier.before \subseteq log
            BY <3>1 DEF Walking
        <3>3. UpTo(verifier.after, log) = log
            BY <2>1 DEF UpTo
        <3>4. IsFiniteSet(log)
            <4>1. /\ log \in SUBSET AuditRow /\ Numbered(log) /\ MaxSeq \in Nat
                  /\ \A r \in log : 0 < r.seq /\ r.seq <= MaxSeq
                <5>1. log \in SUBSET AuditRow /\ MaxSeq \in Nat
                    BY StateKind
                <5>2. \A r \in log : r.seq \in 1..MaxSeq
                    BY <5>1, RowKind
                <5> QED
                    BY <5>1, <5>2 DEF Ascending
            <4> QED
                BY <4>1, RowsCounted
        <3> QED
            BY <3>2, <3>3, <3>4, FS_Subset
    <2>4. ASSUME ~verifier.sound, Len(damage) = 1, damage[1] # "newest removed"
          PROVE  FALSE
        <3>1. Undisturbed
            BY <1>4, <2>4 DEF Undisturbed
        <3>2. PICK r \in log : r.seq > verifier.after
            BY <2>4, <3>1 DEF Walking
        <3>3. r.seq \in Nat /\ verifier.after \in Nat
            BY StateKind, RowKind
        <3> QED
            BY <2>1, <3>2, <3>3
    <2> QED
        BY <1>4, <2>2, <2>3, <2>4
<1>5. ASSUME verifier.at = "reading", UNCHANGED damage,
             \E r \in Batch : ~Fits(r, Batch), Reports(FALSE)
      PROVE  Goal
    <2>1. ~verifier'.intact
        BY <1>5 DEF Reports
    <2>2. ASSUME damage = <<>>
          PROVE  FALSE
        <3>1. Undisturbed
            BY <1>5, <2>2 DEF Undisturbed, Counts
        <3>2. verifier.prev = HashOfNewest(UpTo(verifier.after, log))
            BY <3>1 DEF Walking
        <3>3. PICK r \in Batch : ~Chains(r, log)
            BY <1>5, <3>2, FitsIsChains
        <3>4. r \in log
            BY BatchKind
        <3> QED
            BY <2>2, <3>3, <3>4 DEF Unharmed, Chained
    <2> QED
        BY <1>5, <2>1, <2>2
<1>6. CASE VerifyNextBatch /\ Looks
    <2>1. ~Passes \/ verifier.at # "reading"
        BY DEF Passes
    <2> QED
        BY <1>4, <1>5, <1>6, <2>1, VerifierSteps DEF Looks
<1> QED
    BY <1>1, <1>2, <1>3, <1>6, Steps DEF Looks

-----------------------------------------------------------------------------
LEMMA InitHolds ==
    ASSUME Init
    PROVE  AuditInv
<1>1. log = {} /\ seq = 0 /\ damage = <<>> /\ tx = [w \in Writer |-> NoTx]
    BY DEF Init
<1>2. verifier = [at |-> "idle", prev |-> <<>>, after |-> 0, checked |-> 0,
                  intact |-> TRUE, before |-> {}, sound |-> TRUE]
    BY DEF Init, NotVerifying
<1>3. <<>> \in Seq(Content) /\ <<>> \in Seq(DamageKinds) /\ 0 \in 0..MaxSeq
    BY AuditAssumption
<1>4. TypeOK
    <2>1. NoTx \in TxRow
        BY <1>3 DEF NoTx, TxRow
    <2>2. tx \in TxTable
        BY <1>1, <2>1 DEF TxTable
    <2>3. verifier \in VerifierRow
        BY <1>2, <1>3 DEF VerifierRow
    <2> QED
        BY <1>1, <1>3, <2>2, <2>3 DEF TypeOK, TxTable, TxRow, VerifierRow, DamageKinds
<1>5. \A w \in Writer : tx[w].at = "idle" /\ tx[w].rows = {} /\ Seen(w) = {}
    BY <1>1 DEF NoTx, Seen
<1>6. Chained({}) /\ Numbered({})
    BY DEF Chained, Lengthens, Numbered
<1>7. Serial /\ Ascending /\ Unharmed
    BY <1>1, <1>5, <1>6 DEF Serial, Ascending, Unharmed
<1>8. Marked
    <2>1. Len(<<>>) # 1
        OBVIOUS
    <2>2. ~(Len(damage) = 1)
        BY <1>1, <2>1
    <2> QED
        BY <2>2, Zenon DEF Marked
<1>9. verifier.at = "idle" /\ verifier.sound /\ verifier.checked = 0 /\ verifier.after = 0
    BY <1>2
<1>10. Walking /\ Counts /\ VerifierIsRight
    BY <1>9 DEF Walking, Undisturbed, Counts, VerifierIsRight, NoFalseAlarm, ChecksEverything, DamageShows
<1> QED
    BY <1>4, <1>7, <1>8, <1>10 DEF AuditInv

(* The inductive invariant holds with every writer appending, aborting and  *)
(* committing as record() lets it, verify() reading between commits and     *)
(* rows damaged behind the code's back (audit.service 54-157).              *)
THEOREM AuditInvariance == Spec => []AuditInv
<1>1. Init => AuditInv
    BY InitHolds
<1>2. AuditInv /\ [Next]_vars => AuditInv'
    <2> SUFFICES ASSUME AuditInv, [Next]_vars
                 PROVE  AuditInv'
        OBVIOUS
    <2>1. TypeOK /\ Serial /\ Ascending /\ Unharmed /\ Marked /\ Walking /\ Counts
          /\ VerifierIsRight
        BY DEF AuditInv
    <2>2. TypeOK'
        BY <2>1, TypeStep
    <2>3. Serial' /\ Ascending'
        BY <2>1, SerialStep, AscendingStep
    <2>4. Unharmed' /\ Marked'
        BY <2>1, UnharmedStep, MarkedStep
    <2>5. Walking' /\ Counts' /\ VerifierIsRight'
        BY <2>1, WalkingStep, CountsStep, VerdictStep
    <2> QED
        BY <2>2, <2>3, <2>4, <2>5 DEF AuditInv
<1> QED
    BY <1>1, <1>2, PTL DEF Spec

(* record() and verify() keep every row, step and verdict of its type; in   *)
(* particular a verification never counts more rows than numbers were drawn *)
(* (audit.service 54-92, 131-157).                                          *)
THEOREM AuditTypes == Spec => []TypeOK
<1>1. AuditInv => TypeOK
    BY DEF AuditInv
<1> QED
    BY <1>1, AuditInvariance, PTL

(* The advisory lock of record(), held to the end of the transaction, keeps *)
(* the chain whole: every committed row chains from the one before it in    *)
(* sequence order, whatever aborts and however many entries a transaction   *)
(* records (audit.service 54-92).                                           *)
THEOREM RecordsFormOneChain == Spec => []ChainNeverForks
<1>1. AuditInv => ChainNeverForks
    <2> SUFFICES ASSUME AuditInv, damage = <<>>, NEW r \in log
                 PROVE  r.prevHash = Predecessor(r) /\ r.hash = chainHash(r.content, r.prevHash)
        BY DEF ChainNeverForks
    <2>1. Chains(r, log)
        BY DEF AuditInv, Unharmed, Chained
    <2> QED
        BY <2>1 DEF Chains, Below, Predecessor
<1> QED
    BY <1>1, AuditInvariance, PTL

(* What verify() reports, read in batches with no transaction around them   *)
(* while writers go on, is right for every batch size: an undamaged log is  *)
(* reported intact and to its end, and one edit, removal or exchange made   *)
(* before it began is reported (audit.service 131-157).                     *)
THEOREM VerificationIsRight == Spec => []VerifierIsRight
<1>1. AuditInv => VerifierIsRight
    BY DEF AuditInv
<1> QED
    BY <1>1, AuditInvariance, PTL

=============================================================================
