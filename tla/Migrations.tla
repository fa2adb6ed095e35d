----------------------------- MODULE Migrations -----------------------------
(***************************************************************************)
(* The containers of src/docker-entrypoint.sh bringing one database up to  *)
(* date with the chain of MigrationChain, the operator's migration:revert, *)
(* and the schema the entities declare.  TypeORM runs the pending          *)
(* migrations in timestamp order inside one transaction; files that share  *)
(* a timestamp come in the order the directory lists them.                 *)
(***************************************************************************)
EXTENDS MigrationChain

CONSTANTS
  Containers,  \* the containers started with RUN_MIGRATIONS=true
  Releases,    \* the lengths of the chain in the images deployed
  Resume       \* bound: how many migrations may be recorded when containers are
               \* started after a revert

VARIABLES
  order,     \* the migrations, in the order TypeORM sorts them into
  executed,  \* the migrations table: the names by id
  schema,    \* the committed database
  inst,      \* what each container is doing
  undo,      \* the migration whose revert last failed, or "none"
  reverted   \* a revert has happened

vars == <<order, executed, schema, inst, undo, reverted>>

\* The files of src/migrations by timestamp.
Timestamps == <<
  {"CreateRoomsAndRoomUsers"}, {"CreateUsersTable"}, {"CreateGameSessionsTable"},
  {"AddIndexToUserEmail"}, {"AddUserPreferences"}, {"AddMockTokenBalanceToUsers"},
  {"AddMultiplayerSupportToGameSessions"}, {"CreateWagersTable"},
  {"AddCaseInsensitiveUniqueIndexToUsers"}, {"AddSetNullToLyricsCreatedBy"},
  {"CreateRefreshTokensTable"}, {"AddTokenVersionToUsers"}, {"MigrateWagersToStellarEscrow"},
  {"CreateGameRoundsTable"}, {"AddLatestStakeHashesToWagers"}, {"CreateAuditLogsTable"},
  {"RepairSchemaToMatchEntities"}, {"RenameGossipGodToGossipGuru"}, {"AddStakeDeadlineToWagers"},
  {"AddTimedRoundsHintsAndDailyChallenges"}, {"AddDifficultyConstraintAndDefault"},
  {"AddEmailVerificationAndPasswordReset"},
  {"AddRoomCodeHostAndLifecycle", "AddSourceAndRightsToLyrics", "ConvertTimestampsToTimestamptz"},
  {"AddAliasesAndFixLyricsCreatedBy", "AuditLogsAppendOnlyTrigger"}, {"AddWagerSettlementIntent"},
  {"AlignAuthTokenTables"}, {"AddResponsiblePlayColumnsToUsers"}, {"CreateNotificationsTable"},
  {"AlignIndexNames"}, {"AddSessionMetadataToRefreshTokens"}, {"CreateGameHistoryArchive"} >>

\* Every order the sort by timestamp can leave the files in.
Orders == FoldLeft(LAMBDA os, ms : {o \o p : o \in os, p \in SetToSeqs(ms)}, {<<>>}, Timestamps)

Up(m, s) ==
  CASE m = "CreateRoomsAndRoomUsers" -> CreateRoomsAndRoomUsers_up
    [] m = "CreateUsersTable" -> CreateUsersTable_up
    [] m = "CreateGameSessionsTable" -> CreateGameSessionsTable_up
    [] m = "AddIndexToUserEmail" -> AddIndexToUserEmail_up
    [] m = "AddUserPreferences" -> AddUserPreferences_up
    [] m = "AddMockTokenBalanceToUsers" -> AddMockTokenBalanceToUsers_up
    [] m = "AddMultiplayerSupportToGameSessions" -> AddMultiplayerSupportToGameSessions_up
    [] m = "CreateWagersTable" -> CreateWagersTable_up
    [] m = "AddCaseInsensitiveUniqueIndexToUsers" -> AddCaseInsensitiveUniqueIndexToUsers_up(s)
    [] m = "AddSetNullToLyricsCreatedBy" -> AddSetNullToLyricsCreatedBy_up(s)
    [] m = "CreateRefreshTokensTable" -> CreateRefreshTokensTable_up
    [] m = "AddTokenVersionToUsers" -> AddTokenVersionToUsers_up
    [] m = "MigrateWagersToStellarEscrow" -> MigrateWagersToStellarEscrow_up
    [] m = "CreateGameRoundsTable" -> CreateGameRoundsTable_up
    [] m = "AddLatestStakeHashesToWagers" -> AddLatestStakeHashesToWagers_up
    [] m = "CreateAuditLogsTable" -> CreateAuditLogsTable_up
    [] m = "RepairSchemaToMatchEntities" -> RepairSchemaToMatchEntities_up
    [] m = "RenameGossipGodToGossipGuru" -> RenameGossipGodToGossipGuru_up
    [] m = "AddStakeDeadlineToWagers" -> AddStakeDeadlineToWagers_up
    [] m = "AddTimedRoundsHintsAndDailyChallenges" -> AddTimedRoundsHintsAndDailyChallenges_up
    [] m = "AddDifficultyConstraintAndDefault" -> AddDifficultyConstraintAndDefault_up
    [] m = "AddEmailVerificationAndPasswordReset" -> AddEmailVerificationAndPasswordReset_up(s)
    [] m = "AddRoomCodeHostAndLifecycle" -> AddRoomCodeHostAndLifecycle_up
    [] m = "AddSourceAndRightsToLyrics" -> AddSourceAndRightsToLyrics_up
    [] m = "ConvertTimestampsToTimestamptz" -> ConvertTimestampsToTimestamptz_up
    [] m = "AddAliasesAndFixLyricsCreatedBy" -> AddAliasesAndFixLyricsCreatedBy_up
    [] m = "AuditLogsAppendOnlyTrigger" -> AuditLogsAppendOnlyTrigger_up
    [] m = "AddWagerSettlementIntent" -> AddWagerSettlementIntent_up
    [] m = "AlignAuthTokenTables" -> AlignAuthTokenTables_up
    [] m = "AddResponsiblePlayColumnsToUsers" -> AddResponsiblePlayColumnsToUsers_up
    [] m = "CreateNotificationsTable" -> CreateNotificationsTable_up
    [] m = "AlignIndexNames" -> AlignIndexNames_up
    [] m = "AddSessionMetadataToRefreshTokens" -> AddSessionMetadataToRefreshTokens_up
    [] m = "CreateGameHistoryArchive" -> CreateGameHistoryArchive_up

Down(m, s) ==
  CASE m = "CreateRoomsAndRoomUsers" -> CreateRoomsAndRoomUsers_down
    [] m = "CreateUsersTable" -> CreateUsersTable_down
    [] m = "CreateGameSessionsTable" -> CreateGameSessionsTable_down
    [] m = "AddIndexToUserEmail" -> AddIndexToUserEmail_down
    [] m = "AddUserPreferences" -> AddUserPreferences_down
    [] m = "AddMockTokenBalanceToUsers" -> AddMockTokenBalanceToUsers_down
    [] m = "AddMultiplayerSupportToGameSessions" -> AddMultiplayerSupportToGameSessions_down
    [] m = "CreateWagersTable" -> CreateWagersTable_down
    [] m = "AddCaseInsensitiveUniqueIndexToUsers" -> AddCaseInsensitiveUniqueIndexToUsers_down
    [] m = "AddSetNullToLyricsCreatedBy" -> AddSetNullToLyricsCreatedBy_down(s)
    [] m = "CreateRefreshTokensTable" -> CreateRefreshTokensTable_down
    [] m = "AddTokenVersionToUsers" -> AddTokenVersionToUsers_down
    [] m = "MigrateWagersToStellarEscrow" -> MigrateWagersToStellarEscrow_down
    [] m = "CreateGameRoundsTable" -> CreateGameRoundsTable_down
    [] m = "AddLatestStakeHashesToWagers" -> AddLatestStakeHashesToWagers_down
    [] m = "CreateAuditLogsTable" -> CreateAuditLogsTable_down
    [] m = "RepairSchemaToMatchEntities" -> RepairSchemaToMatchEntities_down
    [] m = "RenameGossipGodToGossipGuru" -> RenameGossipGodToGossipGuru_down
    [] m = "AddStakeDeadlineToWagers" -> AddStakeDeadlineToWagers_down
    [] m = "AddTimedRoundsHintsAndDailyChallenges" -> AddTimedRoundsHintsAndDailyChallenges_down
    [] m = "AddDifficultyConstraintAndDefault" -> AddDifficultyConstraintAndDefault_down
    [] m = "AddEmailVerificationAndPasswordReset" -> AddEmailVerificationAndPasswordReset_down
    [] m = "AddRoomCodeHostAndLifecycle" -> AddRoomCodeHostAndLifecycle_down
    [] m = "AddSourceAndRightsToLyrics" -> AddSourceAndRightsToLyrics_down
    [] m = "ConvertTimestampsToTimestamptz" -> ConvertTimestampsToTimestamptz_down
    [] m = "AddAliasesAndFixLyricsCreatedBy" -> AddAliasesAndFixLyricsCreatedBy_down
    [] m = "AuditLogsAppendOnlyTrigger" -> AuditLogsAppendOnlyTrigger_down
    [] m = "AddWagerSettlementIntent" -> AddWagerSettlementIntent_down
    [] m = "AlignAuthTokenTables" -> AlignAuthTokenTables_down
    [] m = "AddResponsiblePlayColumnsToUsers" -> AddResponsiblePlayColumnsToUsers_down
    [] m = "CreateNotificationsTable" -> CreateNotificationsTable_down
    [] m = "AlignIndexNames" -> AlignIndexNames_down
    [] m = "AddSessionMetadataToRefreshTokens" -> AddSessionMetadataToRefreshTokens_down
    [] m = "CreateGameHistoryArchive" -> CreateGameHistoryArchive_down

Migrate(s, m) == ExecuteAll(s, Up(m, s))
Rollback(s, m) == ExecuteAll(s, Down(m, s))
Populated(s) == [s EXCEPT !.full = DOMAIN s.tab]

\* The files an image with the first r has pending, by place in the order; the
\* migrations table with more rows, under the next ids; and without a name.
Pending(o, names, r) == {k \in 1..r : o[k] \notin Range(names)}
\* Mutant: the rows are taken in ascending order of id.
OldestId(names, id) == id \in DOMAIN names /\ \A k \in DOMAIN names : k >= id
LastId(names, id) == id \in DOMAIN names /\ \A k \in DOMAIN names : k <= id
NextIds(names, top) == LastId(names, top) \/ (DOMAIN names = {} /\ top = 0)
Recorded(names, top, new) ==
  LET ids == {top + k : k \in DOMAIN new}
  IN [id \in DOMAIN names \cup ids |-> IF id \in ids THEN new[id - top] ELSE names[id]]
Undone(names, m) == Without(names, {id \in DOMAIN names : names[id] = m})

---------------------------------------------------------------------------
(* The columns each entity declares.                                       *)

User == [
  id |-> Def("uuid"), email |-> Req("val"), username |-> Req("val"), name |-> Opt("val"),
  passwordHash |-> Req("val"), xp |-> Def("int"), level |-> Def("int"),
  levelTitle |-> Def("users_leveltitle_enum"), createdAt |-> Def("tz"), updatedAt |-> Def("tz"),
  lastLoginAt |-> Opt("ts"), role |-> Def("val"), isActive |-> Def("val"), tokenVersion |-> Def("int"),
  stellarAddress |-> Opt("val"), stellarAddressVerifiedAt |-> Opt("tz"), emailVerifiedAt |-> Opt("tz"),
  mockBalance |-> Def("bigint"), dailyStakeLimit |-> Opt("bigint"),
  dailyStakeLimitEffectiveAt |-> Opt("tz"), selfExclusionEndsAt |-> Opt("tz"),
  preferredGenre |-> Opt("users_preferredgenre_enum"),
  preferredDecade |-> Opt("users_preferreddecade_enum")]
Wager == [
  id |-> Def("uuid"), sessionId |-> Req("uuid"), playerAId |-> Req("uuid"), playerBId |-> Req("uuid"),
  stakeStroops |-> Req("bigint"), totalPotStroops |-> Req("bigint"), status |-> Def("wager_status_enum"),
  winnerId |-> Opt("uuid"), settlementKind |-> Opt("settlement_kind_enum"),
  intendedWinnerId |-> Opt("uuid"), settlementMode |-> Def("val"), escrowTxHash |-> Opt("val"),
  playerAStakeTxHash |-> Opt("val"), playerBStakeTxHash |-> Opt("val"),
  playerALatestStakeHash |-> Opt("val"), playerBLatestStakeHash |-> Opt("val"),
  settlementTxHash |-> Opt("val"), settlementLedger |-> Opt("bigint"), resultMessage |-> Opt("val"),
  stakeDeadline |-> Opt("tz"), createdAt |-> Def("tz"), updatedAt |-> Def("tz"), resolvedAt |-> Opt("tz")]
GameSession == [
  id |-> Def("uuid"), playerId |-> Opt("uuid"), playerTwoId |-> Opt("uuid"), score |-> Def("int"),
  playerTwoScore |-> Def("int"), category |-> Req("game_category_enum"), mode |-> Def("game_mode_enum"),
  status |-> Def("game_session_status_enum"), winnerId |-> Opt("uuid"), wagerStroops |-> Opt("bigint"),
  hasWager |-> Def("val"), createdAt |-> Def("tz"), updatedAt |-> Def("tz"), completedAt |-> Opt("tz")]
GameRound == [
  id |-> Def("uuid"), userId |-> Req("uuid"), lyricId |-> Req("int"), issuedAt |-> Def("tz"),
  expiresAt |-> Req("tz"), answerWindowSeconds |-> Def("int"), hintsUsed |-> Def("int"),
  sessionId |-> Opt("uuid"), closedAt |-> Opt("tz")]
GameHistory == [
  id |-> Def("uuid"), playerId |-> Req("uuid"), lyricId |-> Req("int"), gameSessionId |-> Opt("uuid"),
  guessType |-> Req("game_history_guesstype_enum"), guessValue |-> Req("val"), isCorrect |-> Req("val"),
  pointsAwarded |-> Def("int"), xpChange |-> Def("int"), wagerAmount |-> Opt("int"),
  createdAt |-> Def("tz")]
Lyrics == [
  id |-> Def("int"), content |-> Opt("val"), artist |-> Req("val"), artistAliases |-> Def("val"),
  lyricSnippet |-> Req("val"), songTitle |-> Req("val"), titleAliases |-> Def("val"),
  category |-> Opt("val"), genre |-> Def("lyrics_genre_enum"), decade |-> Req("val"),
  difficulty |-> Def("int"), isActive |-> Def("val"), timesUsed |-> Def("int"), source |-> Req("val"),
  sourceUrl |-> Opt("val"), licence |-> Opt("val"), addedBy |-> Opt("val"), createdById |-> Opt("uuid"),
  createdAt |-> Def("tz"), updatedAt |-> Def("tz")]
Room == [
  id |-> Def("uuid"), name |-> Opt("val"), code |-> Req("val"), lyricId |-> Req("int"),
  hostId |-> Opt("val"), maxPlayers |-> Def("int"), status |-> Def("rooms_status_enum"),
  startedAt |-> Opt("tz"), roundCount |-> Def("int"), createdAt |-> Def("tz"), expiresAt |-> Opt("tz"),
  isClosed |-> Def("val")]
RoomUser == [
  id |-> Def("uuid"), userId |-> Req("uuid"), roomId |-> Req("uuid"), hasGuessed |-> Def("val"),
  score |-> Def("val"), guess |-> Opt("val"), joinedAt |-> Def("tz"), guessedAt |-> Opt("tz")]
RefreshToken == [
  id |-> Def("uuid"), userId |-> Req("uuid"), tokenHash |-> Req("val"), expiresAt |-> Req("tz"),
  revokedAt |-> Opt("tz"), userAgent |-> Opt("val"), ip |-> Opt("val"), lastUsedAt |-> Opt("tz"),
  deviceName |-> Opt("val"), createdAt |-> Def("tz")]
EmailToken == [
  id |-> Def("uuid"), userId |-> Req("uuid"), purpose |-> Def("val"), tokenHash |-> Req("val"),
  expiresAt |-> Req("tz"), usedAt |-> Opt("tz"), createdAt |-> Def("tz")]
PasswordResetToken == [
  id |-> Def("uuid"), userId |-> Req("uuid"), tokenHash |-> Req("val"), expiresAt |-> Req("tz"),
  usedAt |-> Opt("tz"), createdAt |-> Def("tz")]
AuditLog == [
  id |-> Def("uuid"), actorId |-> Req("val"), action |-> Req("val"), targetType |-> Opt("val"),
  targetId |-> Opt("val"), payload |-> Opt("val"), ip |-> Opt("val"), timestamp |-> Def("tz")]
Notification == [
  id |-> Def("uuid"), userId |-> Req("uuid"), type |-> Req("val"), payload |-> Def("val"),
  readAt |-> Opt("tz"), createdAt |-> Def("tz")]
DailyChallenge == [date |-> Req("val"), lyricIds |-> Req("val"), createdAt |-> Def("tz")]
DailyChallengeAttempt == [
  id |-> Def("uuid"), userId |-> Req("uuid"), challengeDate |-> Req("val"), lyricId |-> Req("int"),
  guessType |-> Req("val"), isCorrect |-> Req("val"), points |-> Req("int"), createdAt |-> Def("tz")]

Entities == [
  users |-> User, wagers |-> Wager, game_sessions |-> GameSession, game_rounds |-> GameRound,
  game_history |-> GameHistory, lyrics |-> Lyrics, rooms |-> Room, room_users |-> RoomUser,
  refresh_tokens |-> RefreshToken, email_tokens |-> EmailToken,
  password_reset_tokens |-> PasswordResetToken, audit_logs |-> AuditLog,
  notifications |-> Notification, daily_challenges |-> DailyChallenge,
  daily_challenge_attempts |-> DailyChallengeAttempt]

---------------------------------------------------------------------------

NoFailure == [m |-> "none", stale |-> FALSE, rows |-> FALSE, reverted |-> FALSE]
Stopped == [st |-> "down", rel |-> 0, todo |-> {}, done |-> <<>>, tx |-> EmptySchema,
            why |-> NoFailure]

Init ==
  /\ order \in Orders
  /\ executed = <<>> /\ schema = EmptySchema
  /\ inst = [i \in Containers |-> Stopped]
  /\ undo = "none" /\ reverted = FALSE

InTransaction == \E i \in Containers : inst[i].st = "tx"

\* A container of some release starts, once the database answers.
\* migration:run reads the migrations table; what it does not name is pending.
\* (A read during another's transaction is the read just before it.)
Load(i, r) ==
  /\ inst[i].st = "down" /\ ~InTransaction
  /\ reverted => Cardinality(Range(executed)) \in Resume
  /\ inst' = [inst EXCEPT ![i] = [Stopped EXCEPT !.st = "loaded", !.rel = r,
       !.todo = Pending(order, executed, r)]]
  /\ UNCHANGED <<order, executed, schema, undo, reverted>>

\* Nothing to migrate: the entrypoint goes on to start the server.
NonePending(i) ==
  /\ inst[i].st = "loaded" /\ inst[i].todo = {}
  /\ inst' = [inst EXCEPT ![i].st = "serving"]
  /\ UNCHANGED <<order, executed, schema, undo, reverted>>

\* The first statement of the transaction waits for the locks of another's.
Begin(i) ==
  /\ inst[i].st = "loaded" /\ inst[i].todo # {}
  /\ ~InTransaction
  /\ inst' = [inst EXCEPT ![i].st = "tx", ![i].tx = schema]
  /\ UNCHANGED <<order, executed, schema, undo, reverted>>

\* Mutant: the entrypoint without set -e, which starts the server anyway.
StepIgnoringErrors(i) ==
  /\ inst[i].st = "tx" /\ inst[i].todo # {}
  /\ LET c == inst[i]
         m == order[Min(c.todo)]
         s == Migrate(c.tx, m)
     IN inst' = [inst EXCEPT ![i] =
          IF s.ok
          THEN [c EXCEPT !.tx = s, !.todo = @ \ {Min(c.todo)}, !.done = Append(c.done, m)]
          ELSE [Stopped EXCEPT !.st = "serving", !.rel = inst[i].rel]]
  /\ UNCHANGED <<order, executed, schema, undo, reverted>>
\* Mutant: every statement commits by itself.
StepWithoutTransaction(i) ==
  /\ inst[i].st = "tx" /\ inst[i].todo # {}
  /\ LET c == inst[i]
         m == order[Min(c.todo)]
         s == Migrate(c.tx, m)
     IN /\ schema' = IF s.ok THEN s ELSE schema
        /\ inst' = [inst EXCEPT ![i] =
             IF s.ok
             THEN [c EXCEPT !.tx = s, !.todo = @ \ {Min(c.todo)}, !.done = Append(c.done, m)]
             ELSE [Stopped EXCEPT !.st = "exited",
                     !.why = [m |-> m, stale |-> m \in Range(executed),
                              rows |-> schema.full # {}, reverted |-> reverted]]]
  /\ UNCHANGED <<order, executed, undo, reverted>>
\* One migration's up; an error rolls the transaction back, migration:run
\* exits with a failure and, under set -e, so does the container.
Step(i) ==
  /\ inst[i].st = "tx" /\ inst[i].todo # {}
  /\ LET c == inst[i]
         m == order[Min(c.todo)]
         s == Migrate(c.tx, m)
     IN inst' = [inst EXCEPT ![i] =
          IF s.ok
          THEN [c EXCEPT !.tx = s, !.todo = @ \ {Min(c.todo)}, !.done = Append(c.done, m)]
          ELSE [Stopped EXCEPT !.st = "exited",
                  !.why = [m |-> m, stale |-> m \in Range(executed),
                           rows |-> schema.full # {}, reverted |-> reverted]]]
  /\ UNCHANGED <<order, executed, schema, undo, reverted>>

Commit(i) ==
  /\ inst[i].st = "tx" /\ inst[i].todo = {}
  /\ schema' = inst[i].tx
  /\ \E top \in DOMAIN executed \cup {0} : NextIds(executed, top) /\ executed' = Recorded(executed, top, inst[i].done)
  /\ inst' = [inst EXCEPT ![i] = [Stopped EXCEPT !.st = "serving", !.rel = inst[i].rel]]
  /\ UNCHANGED <<order, undo, reverted>>

\* A container stops, also in its transaction, and may be started again.
Stop(i) ==
  /\ inst[i].st # "down" /\ (InTransaction => inst[i].st = "tx")
  /\ inst' = [inst EXCEPT ![i] = Stopped]
  /\ UNCHANGED <<order, executed, schema, undo, reverted>>

\* The game is played: every table gets rows.
Play(i) ==
  /\ inst[i].st = "serving" /\ ~InTransaction
  /\ schema' = Populated(schema)
  /\ UNCHANGED <<order, executed, inst, undo, reverted>>

\* npm run migration:revert, with the application stopped: the down of the
\* latest executed migration.
Revert ==
  /\ \A i \in Containers : inst[i].st = "down"
  /\ \E id \in DOMAIN executed :
       /\ LastId(executed, id)
       /\ LET m == executed[id]
              s == Rollback(schema, m)
          IN IF s.ok
             THEN /\ schema' = s /\ executed' = Undone(executed, m)
                  /\ reverted' = TRUE /\ undo' = "none"
             ELSE /\ undo' = m /\ UNCHANGED <<schema, executed, reverted>>
  /\ UNCHANGED <<order, inst>>

Next ==
  \/ \E i \in Containers : (\E r \in Releases : Load(i, r)) \/ NonePending(i) \/ Begin(i) \/ Step(i) \/ Commit(i)
                           \/ Stop(i) \/ Play(i)
  \/ Revert

Spec == Init /\ [][Next]_vars

---------------------------------------------------------------------------

\* A container serves only once every migration of its image is recorded,
\* whoever recorded it: also when it read the table before others changed it,
\* was overtaken and failed, or was killed in its transaction and came back.
ServesMigrated ==
  \A i \in Containers : inst[i].st = "serving" =>
    \A k \in 1..inst[i].rel : order[k] \in Range(executed)

\* A container whose list of pending migrations was current migrates the
\* database, from an empty one, from any earlier release or after reverts, in
\* whichever order the directory lists the files.  Two migrations may refuse:
\* RepairSchemaToMatchEntities on tables with rows, and, after its own revert,
\* AddMultiplayerSupportToGameSessions, whose enum label its down leaves.  The
\* rows are assumed to satisfy the unique indexes that are added.
UpgradesApply ==
  \A i \in Containers : LET f == inst[i].why IN
    f.m = "none" \/ f.stale
    \/ (f.reverted /\ f.m = "AddMultiplayerSupportToGameSessions")
    \/ (f.rows /\ f.m = "RepairSchemaToMatchEntities")

\* Every migration can be reverted in turn, down to the empty database; only
\* RepairSchemaToMatchEntities refuses, on tables with rows.
RevertsApply ==
  undo = "none" \/ (undo = "RepairSchemaToMatchEntities" /\ schema.full # {})

\* A container of the last release is serving.
UpToDate == \E i \in Containers : inst[i].st = "serving" /\ inst[i].rel = Len(order)

Zoneless(ty) == IF ty = "tz" THEN "ts" ELSE ty

\* The columns the chain leaves with another time zone than the entity has:
\* two are added after every TIMESTAMP was converted, one is converted although
\* the entity declares it without, and one is added by a file that shares its
\* timestamp with the conversion and may be listed after it.
Drift(o) ==
  LET at(m) == CHOOSE k \in DOMAIN o : o[k] = m
      late == at("ConvertTimestampsToTimestamptz") < at("AddRoomCodeHostAndLifecycle")
  IN {<<"users", "dailyStakeLimitEffectiveAt">>, <<"users", "selfExclusionEndsAt">>,
      <<"users", "lastLoginAt">>} \cup (IF late THEN {<<"rooms", "startedAt">>} ELSE {})

\* Schema s has every column the entities declare, of the declared type and as
\* nullable as declared, and no other column in their tables.  The time zone is
\* as declared too, but for the columns of Drift and unless a migration has
\* ever been reverted.
HasEntities(o, s, back) ==
  \A t \in DOMAIN Entities :
    /\ HasTable(s, t)
    /\ DOMAIN s.tab[t] = DOMAIN Entities[t]
    /\ \A c \in DOMAIN Entities[t] :
         LET col == s.tab[t][c]
             anyZone == back \/ <<t, c>> \in Drift(o)
         IN /\ IF anyZone THEN Zoneless(col.ty) = Zoneless(Entities[t][c].ty)
                        ELSE col.ty = Entities[t][c].ty
            /\ col.nn = Entities[t][c].nn

\* docs/MIGRATIONS.md: the chain "produces exactly the schema the entities
\* describe".  A container that serves finds the columns its entities declare:
\* it never starts on a half-migrated schema, whichever release the database
\* was upgraded from, in whatever order files of one timestamp ran, and
\* whatever was deployed or reverted before.
ServedSchemaHasEntities == UpToDate => HasEntities(order, schema, reverted)
============================================================================
