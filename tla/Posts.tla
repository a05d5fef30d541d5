------------------------------- MODULE Posts -------------------------------
(***************************************************************************)
(* News and announcements.  A post has no status column: its publish time   *)
(* decides (none: a draft; ahead: scheduled; behind: live).  People who may *)
(* only draft work beside publishers, and every handler reads the post      *)
(* before it writes it.                                                     *)
(***************************************************************************)
EXTENDS Naturals, Sequences, FiniteSets

CONSTANTS
    Worker,
    Post,           \* identifiers of rows, given out once
    Title,          \* what slugify makes of a title: a sequence of words
    MaxTime,        \* bound on the clock
    MaxVersion      \* bound on the edits of a post

VARIABLES
    posts,          \* the committed rows: a function on a subset of Post
    given,          \* identifiers that some row has or had
    now,
    tx

vars == <<posts, given, now, tx>>

Seqs == INSTANCE SequencesExt

Draft == 0          \* no publish time
Idle == [step |-> "idle"]

Init ==
    /\ posts = <<>>
    /\ given = {}
    /\ now = 1
    /\ tx = [w \in Worker |-> Idle]

Ends(w) == tx' = [tx EXCEPT ![w] = Idle]

(* assertMayChange, for someone with or without posts.publish: a post that has a *)
(* publish time is live or scheduled.                                            *)
MayChange(p, publisher) == publisher \/ posts[p].publishAt = Draft

-----------------------------------------------------------------------------
Slugs == {posts[p].slug : p \in DOMAIN posts}

(* The base itself or, when it is taken, followed by the first free number from 2. *)
UniqueSlug(base, taken) ==
    IF base \notin taken THEN base
    ELSE LET n == CHOOSE n \in 2 .. Cardinality(taken) + 2 :
                     /\ Append(base, n) \notin taken
                     /\ \A k \in 2 .. n - 1 : Append(base, k) \in taken
         IN Append(base, n)

(* create: the advisory lock on slugs, then the slugs that begin like this one. *)
PickSlug(w, base) ==
    /\ \A v \in Worker : tx[v].step # "creating"
    /\ tx[w] = Idle
    /\ tx' = [tx EXCEPT ![w] = [step |-> "creating",
                 slug |-> UniqueSlug(base, {s \in Slugs : Seqs!IsPrefix(base, s)})]]
    /\ UNCHANGED <<posts, given, now>>

(* The insert, under posts_slug_key, and the commit that frees the lock. *)
Create(w, p) ==
    /\ tx[w].step = "creating"
    /\ tx[w].slug \notin Slugs
    /\ p \in Post \ given
    /\ given' = given \cup {p}
    /\ posts' = [q \in DOMAIN posts \cup {p} |->
                    IF q = p THEN [slug |-> tx[w].slug, publishAt |-> Draft, version |-> 1]
                    ELSE posts[q]]
    /\ Ends(w)
    /\ UNCHANGED now

-----------------------------------------------------------------------------
(* The portal loads a post and its version; the person sends a change later. *)
Open(w, p, publisher) ==
    /\ tx[w] = Idle
    /\ p \in DOMAIN posts
    /\ tx' = [tx EXCEPT ![w] = [step |-> "open", post |-> p, version |-> posts[p].version,
                                publisher |-> publisher]]
    /\ UNCHANGED <<posts, given, now>>

Has(w, step) == tx[w].step = step /\ tx[w].post \in DOMAIN posts

(* update and remove read the post and ask whether this person may change it. *)
Check(w, step) ==
    /\ Has(w, "open")
    /\ MayChange(tx[w].post, tx[w].publisher)
    /\ tx' = [tx EXCEPT ![w].step = step]
    /\ UNCHANGED <<posts, given, now>>

(* Mutant: an update by id alone. *)
WriteAnyVersion(w, publishAt) ==
    /\ tx[w].version < MaxVersion
    /\ posts' = [posts EXCEPT ![tx[w].post].publishAt = publishAt, ![tx[w].post].version = @ + 1]
    /\ Ends(w)
    /\ UNCHANGED <<given, now>>

(* updateWithVersion, with the version the portal loaded. *)
Write(w, publishAt) ==
    /\ posts[tx[w].post].version = tx[w].version
    /\ tx[w].version < MaxVersion
    /\ posts' = [posts EXCEPT ![tx[w].post].publishAt = publishAt, ![tx[w].post].version = @ + 1]
    /\ Ends(w)
    /\ UNCHANGED <<given, now>>

(* update: the slug stays what it was. *)
Update(w) ==
    /\ Has(w, "updating")
    /\ Write(w, posts[tx[w].post].publishAt)

(* Needs posts.publish; a time that is not ahead means now. *)
Publish(w, requested) ==
    /\ Has(w, "open") /\ tx[w].publisher
    /\ Write(w, IF requested > now THEN requested ELSE now)

Unpublish(w) ==
    /\ Has(w, "open") /\ tx[w].publisher
    /\ Write(w, Draft)

(* remove: the row as it is now, whatever its version. *)
Remove(w) ==
    /\ Has(w, "removing")
    /\ posts' = [p \in DOMAIN posts \ {tx[w].post} |-> posts[p]]
    /\ Ends(w)
    /\ UNCHANGED <<given, now>>

(* A refusal, a conflict of versions, a rollback, or the person leaves the page. *)
GiveUp(w) ==
    /\ tx[w] # Idle
    /\ Ends(w)
    /\ UNCHANGED <<posts, given, now>>

TimePasses ==
    /\ now < MaxTime
    /\ now' = now + 1
    /\ UNCHANGED <<posts, given, tx>>

Next ==
    \/ \E w \in Worker :
          \/ \E base \in Title : PickSlug(w, base)
          \/ \E p \in Post : Create(w, p)
          \/ \E p \in Post, publisher \in BOOLEAN : Open(w, p, publisher)
          \/ \E step \in {"updating", "removing"} : Check(w, step)
          \/ Update(w)
          \/ \E requested \in 1 .. MaxTime : Publish(w, requested)
          \/ Unpublish(w)
          \/ Remove(w)
          \/ GiveUp(w)
    \/ TimePasses

Spec == Init /\ [][Next]_vars

-----------------------------------------------------------------------------
(* The posts a step changes or removes, and those that someone without        *)
(* posts.publish changes or removes in it.                                    *)
Touched == {p \in DOMAIN posts : p \notin DOMAIN posts' \/ posts'[p] # posts[p]}

TouchedByDrafter ==
    {p \in Touched : \E w \in Worker :
        tx'[w] # tx[w] /\ tx[w].step \in {"open", "updating", "removing"} /\ ~tx[w].publisher}

(* A removal of a post that somebody has changed since the drafter loaded it. *)
RemovedLate(p) ==
    /\ p \notin DOMAIN posts'
    /\ \E w \in Worker : /\ tx[w].step = "removing" /\ tx[w].post = p /\ tx'[w] = Idle
                         /\ tx[w].version < posts[p].version

SlugsStayFree == \A w \in Worker : tx[w].step = "creating" => tx[w].slug \notin Slugs

PublishersDecide ==
    \A p \in TouchedByDrafter : posts[p].publishAt # Draft => RemovedLate(p)

(* Nobody who may only draft edits a post that is live or scheduled, although    *)
(* the check and the write are two statements and a publisher may come between   *)
(* them.  They remove one only then, when somebody has changed it since they     *)
(* loaded it: a removal does not compare versions.  And a new post's slug is     *)
(* still free when it is inserted.                                               *)
PostsAreGuarded == []SlugsStayFree /\ [][PublishersDecide]_vars

(* What the service's comment promises of every change, removal included:       *)
(* "People who can only draft may not touch a post that is live or scheduled."  *)
DraftersLeavePublishedAlone ==
    [][\A p \in TouchedByDrafter : posts[p].publishAt = Draft]_vars

=============================================================================
