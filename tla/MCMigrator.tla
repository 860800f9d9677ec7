----------------------------- MODULE MCMigrator -----------------------------
(***************************************************************************)
(* Instances of Migrator for TLC: the first tables of 000001_core, what    *)
(* 000002_domains does with them, and the minting of public ids.           *)
(***************************************************************************)
EXTENDS Migrator

CONSTANTS r1, r2

MCTable == {"users", "wall_posts", "friendships", "groups"}

MCPlan ==
  LET statement(needs, makes) == [needs |-> needs, makes |-> makes]
  IN << << statement({}, {"users"}),
           statement({"users"}, {"wall_posts"}),
           statement({"users"}, {"friendships"}) >>,
        << statement({"friendships"}, {}),
           statement({"wall_posts"}, {"groups"}) >>,
        << statement({"users", "wall_posts", "friendships", "groups"}, {}) >> >>
=============================================================================
