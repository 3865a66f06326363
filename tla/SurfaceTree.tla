----------------------------- MODULE SurfaceTree -----------------------------
(***************************************************************************)
(* Surfaces and subsurfaces (surface.c): the commits a client makes, kept  *)
(* back while their fence is not ready or until their parent is committed, *)
(* what is applied, which surfaces are mapped and in which order they are  *)
(* stacked.  What a commit carries is reduced to its number, to whether it *)
(* attaches a buffer, and to its locks: the pending state of the code is   *)
(* read by nobody before the commit, which chooses it here.                *)
(***************************************************************************)
EXTENDS Naturals, Sequences, SequencesExt

CONSTANTS
  Nodes,      \* the surfaces
  Roots,      \* those with a role of their own, never subsurfaces
  MaxCommits, \* bound: commits in a behaviour
  Nowhere     \* no surface

ASSUME SurfacesAssumption ==
  /\ Roots \subseteq Nodes /\ Nowhere \notin Nodes /\ MaxCommits \in Nat

VARIABLES
  tree,  \* each surface, with its subsurface if it has one
  clock  \* the number of the last commit

\* committed numbers the state on show.  A cached state says which commit it is,
\* what buffer it attaches, how many locks it has and whether its fence is awaited.
\* object: the role object lives.  parent, sync, added and cache (the state kept
\* for the parent, 0 for none) are the subsurface's, Nowhere without one.  stack
\* and pend are the children with the surface itself, from the bottom.
NewSurface(s) ==
  [alive |-> TRUE, mapped |-> FALSE, texture |-> FALSE, committed |-> 0, cached |-> <<>>,
   object |-> FALSE, parent |-> Nowhere, sync |-> FALSE, added |-> FALSE, cache |-> 0,
   stack |-> <<s>>, pend |-> <<s>>]

SurfacesInit ==
  /\ tree = [s \in Nodes |-> [NewSurface(s) EXCEPT !.alive = s \in Roots]]
  /\ clock = 0

Without(seq, s) == SelectSeq(seq, LAMBDA x : x # s)
Children(t, s) == Without(t[s].stack, s)

\* Itself or an ancestor is synchronized.
RECURSIVE subsurface_synchronized(_, _)
subsurface_synchronized(t, s) ==
  /\ t[s].parent # Nowhere
  /\ t[s].sync \/ subsurface_synchronized(t, t[s].parent)

RECURSIVE surface_root(_, _)
surface_root(t, s) == IF t[s].parent = Nowhere THEN s ELSE surface_root(t, t[s].parent)

RECURSIVE Ancestors(_, _)
Ancestors(t, s) ==
  IF t[s].parent = Nowhere THEN {} ELSE {t[s].parent} \cup Ancestors(t, t[s].parent)

(***************************************************************************)
(* Mapping.  t is the tree, the result what it becomes.                    *)
(***************************************************************************)
RECURSIVE surface_map(_, _)

subsurface_consider_map(t, s) ==
  IF t[s].added /\ t[s].parent # Nowhere /\ t[t[s].parent].mapped /\ t[s].texture
  THEN surface_map(t, s) ELSE t

surface_map(t, s) ==
  IF t[s].mapped THEN t
  ELSE FoldLeft(subsurface_consider_map, [t EXCEPT ![s].mapped = TRUE], Children(t, s))

RECURSIVE surface_unmap(_, _)
surface_unmap(t, s) ==
  IF ~t[s].mapped THEN t
  ELSE FoldLeft(surface_unmap, [t EXCEPT ![s].mapped = FALSE], Children(t, s))

\* A surface with a role of its own is mapped when it has a buffer.
RoleCommit(t, s) ==
  IF s \in Roots THEN IF t[s].texture THEN surface_map(t, s) ELSE t
  ELSE IF t[s].object THEN subsurface_consider_map(t, s) ELSE t

(***************************************************************************)
(* States.                                                                 *)
(***************************************************************************)
RECURSIVE flush_cached(_, _)

surface_unlock(t, s, n) ==
  flush_cached([t EXCEPT ![s].cached =
                 [i \in DOMAIN @ |-> IF @[i].n = n THEN [@[i] EXCEPT !.locks = @ - 1] ELSE @[i]]], s)

\* The state a subsurface kept for its parent is no longer kept.
LetGo(t, s) ==
  IF t[s].cache = 0 THEN t ELSE surface_unlock([t EXCEPT ![s].cache = 0], s, t[s].cache)

\* What applying the parent does to a subsurface.  One that is synchronized only
\* through an ancestor keeps its state.
ParentApplied(t, s) ==
  LET u == IF t[s].sync THEN LetGo(t, s) ELSE t
  IN IF u[s].added THEN u ELSE subsurface_consider_map([u EXCEPT ![s].added = TRUE], s)

apply_state(t, s, state) ==
  LET unmapped == IF state.buffer = "null" THEN surface_unmap(t, s) ELSE t
      moved == [unmapped EXCEPT
                  ![s].committed = state.n,
                  ![s].texture = (state.buffer = "new") \/ (state.buffer = "same" /\ @),
                  ![s].stack = t[s].pend]
  IN RoleCommit(FoldLeft(ParentApplied, moved, Children(moved, s)), s)

flush_cached(t, s) ==
  IF t[s].cached = <<>> \/ t[s].cached[1].locks > 0 THEN t
  ELSE flush_cached(apply_state([t EXCEPT ![s].cached = Tail(@)], s, t[s].cached[1]), s)

\* Mutant: the states that are kept back are not looked at.
surface_commit_Overtakes(s, buffer, wait) ==
  /\ tree[s].alive /\ clock < MaxCommits /\ clock' = clock + 1
  /\ wait => buffer = "new"
  /\ LET synced == tree[s].parent # Nowhere /\ subsurface_synchronized(tree, s)
         lock_parent == synced /\ tree[s].cache = 0
         t == IF ~synced THEN LetGo(tree, s) ELSE tree
         state == [n |-> clock', buffer |-> buffer, wait |-> wait,
                   locks |-> (IF lock_parent THEN 1 ELSE 0) + (IF wait THEN 1 ELSE 0)]
     IN tree' = IF ~wait /\ ~synced THEN apply_state(t, s, state)
                ELSE flush_cached([t EXCEPT ![s].cached = Append(@, state),
                                            ![s].cache = IF lock_parent THEN clock' ELSE @], s)

\* Commit a state that attaches a buffer or none, whose fence may not be ready.
surface_commit(s, buffer, wait) ==
  /\ tree[s].alive /\ clock < MaxCommits /\ clock' = clock + 1
  /\ wait => buffer = "new"
  /\ LET synced == tree[s].parent # Nowhere /\ subsurface_synchronized(tree, s)
         lock_parent == synced /\ tree[s].cache = 0
         t == IF ~synced THEN LetGo(tree, s) ELSE tree
         state == [n |-> clock', buffer |-> buffer, wait |-> wait,
                   locks |-> (IF lock_parent THEN 1 ELSE 0) + (IF wait THEN 1 ELSE 0)]
     IN tree' = IF ~wait /\ ~synced /\ t[s].cached = <<>> THEN apply_state(t, s, state)
                ELSE flush_cached([t EXCEPT ![s].cached = Append(@, state),
                                            ![s].cache = IF lock_parent THEN clock' ELSE @], s)

\* The fence of a cached state is available.
acquire_ready(s) ==
  \E i \in DOMAIN tree[s].cached :
    /\ tree[s].cached[i].wait
    /\ tree' = surface_unlock([tree EXCEPT ![s].cached[i].wait = FALSE], s, tree[s].cached[i].n)
    /\ UNCHANGED clock

(***************************************************************************)
(* Subsurfaces.                                                            *)
(***************************************************************************)
get_subsurface(s, p) ==
  /\ s \notin Roots /\ tree[s].alive /\ tree[p].alive /\ ~tree[s].object
  /\ surface_root(tree, p) # s
  /\ tree' = [tree EXCEPT ![s].object = TRUE, ![s].parent = p, ![s].sync = TRUE,
                          ![s].added = FALSE, ![p].pend = Append(@, s)]
  /\ UNCHANGED clock

subsurface_set_sync(s) ==
  /\ tree[s].parent # Nowhere
  /\ tree' = [tree EXCEPT ![s].sync = TRUE]
  /\ UNCHANGED clock

subsurface_set_desync(s) ==
  /\ tree[s].parent # Nowhere /\ tree[s].sync
  /\ LET t == [tree EXCEPT ![s].sync = FALSE]
     IN tree' = IF subsurface_synchronized(t, s) THEN t ELSE LetGo(t, s)
  /\ UNCHANGED clock

\* A sibling or the parent to be next to.
subsurface_place(s, other, above) ==
  LET p == tree[s].parent
      rest == Without(tree[p].pend, s)
      at == CHOOSE i \in DOMAIN rest : rest[i] = other
  IN /\ p # Nowhere /\ other # s /\ other \in ToSet(tree[p].pend)
     /\ tree' = [tree EXCEPT ![p].pend = InsertAt(rest, IF above THEN at + 1 ELSE at, s)]
     /\ UNCHANGED clock

\* Mutant: a subsurface goes and leaves its state locked.
subsurface_free_Locked(t, s) ==
  IF t[s].parent = Nowhere THEN t
  ELSE LET p == t[s].parent
           u == surface_unmap([t EXCEPT ![s].cache = 0], s)
       IN [u EXCEPT ![s].parent = Nowhere, ![s].sync = FALSE, ![s].added = FALSE,
                    ![p].stack = Without(@, s), ![p].pend = Without(@, s)]

subsurface_free(t, s) ==
  IF t[s].parent = Nowhere THEN t
  ELSE LET p == t[s].parent
           u == surface_unmap(LetGo(t, s), s)
       IN [u EXCEPT ![s].parent = Nowhere, ![s].sync = FALSE, ![s].added = FALSE,
                    ![p].stack = Without(@, s), ![p].pend = Without(@, s)]

RoleDestroyed(s) ==
  /\ tree[s].object
  /\ tree' = [subsurface_free(surface_unmap(tree, s), s) EXCEPT ![s].object = FALSE]
  /\ UNCHANGED clock

create_surface(s) ==
  /\ ~tree[s].alive
  /\ tree' = [tree EXCEPT ![s] = NewSurface(s)]
  /\ UNCHANGED clock

\* The surface goes with its subsurface, its children's and its cached states.
surface_free(s) ==
  /\ tree[s].alive
  /\ LET mine == subsurface_free(surface_unmap(tree, s), s)
         orphaned == FoldLeft(subsurface_free, mine, Without(mine[s].pend, s))
     IN tree' = [orphaned EXCEPT ![s] = [NewSurface(s) EXCEPT !.alive = FALSE]]
  /\ UNCHANGED clock

SurfacesNext ==
  \E s \in Nodes :
    \/ \E buffer \in {"same", "null", "new"}, wait \in BOOLEAN : surface_commit(s, buffer, wait)
    \/ acquire_ready(s)
    \/ create_surface(s) \/ surface_free(s) \/ RoleDestroyed(s)
    \/ subsurface_set_sync(s) \/ subsurface_set_desync(s)
    \/ \E p \in Nodes : get_subsurface(s, p)
    \/ \E other \in Nodes, above \in BOOLEAN : subsurface_place(s, other, above)

(***************************************************************************)
(* Properties.                                                             *)
(***************************************************************************)
\* Every lock on a state that is kept back has a holder who will take it off: the
\* subsurface that keeps it for its parent, or the fence that is awaited; and the
\* first of them is locked.  No state is kept back for ever by a subsurface, a
\* parent or a surface that went.
LocksAreHeld ==
  \A s \in Nodes :
    LET states == tree[s].cached
    IN /\ states # <<>> => states[1].locks > 0
       /\ \A i \in DOMAIN states :
            states[i].locks = (IF tree[s].cache = states[i].n THEN 1 ELSE 0)
                              + (IF states[i].wait THEN 1 ELSE 0)
       /\ tree[s].cache # 0 => \E i \in DOMAIN states : states[i].n = tree[s].cache

\* A subsurface is on screen exactly when it has content, was taken up by a commit
\* of its parent, and the parent is on screen.
OnScreenWithParent ==
  \A s \in Nodes \ Roots :
    tree[s].mapped = (/\ tree[s].parent # Nowhere /\ tree[s].added
                      /\ tree[tree[s].parent].mapped /\ tree[s].texture)

TreeIsSound == LocksAreHeld /\ OnScreenWithParent

\* Commits are applied in the order they were made; and what a synchronized
\* subsurface keeps for its parent, with all it commits after that, is seen only
\* in a step in which a surface above it applies a commit.
AppliedInOrder ==
  [][\A s \in Nodes : LET p == tree[s].parent IN
       tree[s].alive /\ tree'[s].alive =>
         /\ tree'[s].committed >= tree[s].committed
         /\ /\ tree[s].cache # 0 /\ tree[s].sync /\ tree'[s].sync /\ tree'[s].parent = p
            /\ tree'[s].committed >= tree[s].cache
            => \E a \in Ancestors(tree', s) : tree'[a].committed # tree[a].committed]_<<tree, clock>>
=============================================================================
