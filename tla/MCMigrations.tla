---------------------------- MODULE MCMigrations ----------------------------
(* Two containers on one database.  The images deployed have the chain up  *)
(* to the release before RepairSchemaToMatchEntities (16), the one before  *)
(* the files that share a timestamp (22), all but the last two, which can  *)
(* be applied twice (32), and the whole of it (34).                        *)
EXTENDS Migrations
CONSTANTS c1, c2
MCContainers == {c1, c2}
MCReleases == {16, 22, 32, 34}
MCResume == {0, 6, 16, 24, 29, 32, 34}
Symmetry == Permutations(MCContainers)
============================================================================
