------------------------- MODULE DeliveryRefinement -------------------------
(***************************************************************************)
(* The GitHub delivery implements Delivery.                                *)
(***************************************************************************)
EXTENDS GithubSync

OwnChange == [r \in Runs |-> OnlyChangedBy(r)]

\* The runs of which a history shows every file that they alone changed.
Shown(history) ==
    LET tip == history[Len(history)]
    IN  {r \in Runs : \A f \in OwnChange[r] : tip[f] # "base"}

\* What a reader of GitHub sees of a pull request.
Seen(pr) == [run |-> pr.run, head |-> pr.head, shown |-> Shown(pr.tip)]

Named == [r \in Runs |-> record[r].branch]
Linked == [r \in Runs |-> record[r].pr]
Published == {b \in Branches : Exists(remote, b)}
Requested == [n \in DOMAIN prs |-> Seen(prs[n])]
Open == {n \in DOMAIN prs : prs[n].open}

Promise == INSTANCE Delivery WITH
    named <- Named, published <- Published, requests <- Requested, open <- Open,
    linked <- Linked

\* Wherever creations and packet syncs fail and are given again, and whatever the
\* operator and others do meanwhile, run.json and GitHub show a behaviour of
\* Delivery: service.ts names, publishes, requests and links in that order, each
\* for the run it works on, and undoes none of it.
DeliveryKept == Promise!Spec

=============================================================================
