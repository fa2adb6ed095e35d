--------------------------- MODULE MigrationChain ---------------------------
(***************************************************************************)
(* Every migration of src/src/migrations, as the statements its up and     *)
(* down execute.  A migration that first looks at the database takes the   *)
(* schema it finds as its argument.  Names TypeORM derives by hashing are  *)
(* written out ("FK_" table "_" column, "IDX_" ..., "UQ_" ...); names the  *)
(* migrations choose by hand are kept.  Primary keys, ON DELETE rules and  *)
(* the values a data fix writes are left out.                              *)
(***************************************************************************)
EXTENDS Ddl

CreateRoomsAndRoomUsers_up == <<
  IfNew(CreateTable("rooms",
    [id |-> Def("uuid"), name |-> Opt("val"), lyricId |-> Req("int"),
     createdAt |-> Def("ts"), expiresAt |-> Opt("ts"), isClosed |-> Def("val")])),
  IfNew(CreateTable("room_users",
    [id |-> Def("uuid"), userId |-> Req("int"), roomId |-> Req("uuid"),
     hasGuessed |-> Def("val"), score |-> Def("val"), guess |-> Opt("val"),
     joinedAt |-> Def("ts"), guessedAt |-> Opt("ts")])),
  AddForeignKey("FK_room_users_roomId", "room_users", "roomId", "rooms") >>
CreateRoomsAndRoomUsers_down == << DropTable("room_users"), DropTable("rooms") >>

CreateUsersTable_up == <<
  CreateTable("users",
    [id |-> Def("uuid"), email |-> Req("val"), name |-> Opt("val"),
     passwordHash |-> Req("val"), createdAt |-> Def("ts"), updatedAt |-> Def("ts")]),
  AddUnique("UQ_users_email", "users", {"email"}) >>
CreateUsersTable_down == << DropTable("users") >>

CreateGameSessionsTable_up == <<
  CreateType("game_category_enum", {"category"}),
  CreateType("game_session_status_enum", {"in_progress", "completed", "abandoned"}),
  CreateTable("game_sessions",
    [id |-> Def("uuid"), score |-> Def("int"), category |-> Req("game_category_enum"),
     status |-> Def("game_session_status_enum"), createdAt |-> Def("ts"),
     updatedAt |-> Def("ts"), playerId |-> Opt("uuid")]),
  AddForeignKey("FK_player_game_session", "game_sessions", "playerId", "users") >>
CreateGameSessionsTable_down == <<
  DropConstraint("FK_player_game_session"), DropTable("game_sessions"),
  DropType("game_session_status_enum"), DropType("game_category_enum") >>

AddIndexToUserEmail_up == << CreateIndex("IDX_users_email", "users", {"email"}) >>
AddIndexToUserEmail_down == << DropIndex("IDX_users_email") >>

AddUserPreferences_up == <<
  CreateType("users_preferredgenre_enum", {"genre"}),
  AddColumns("users", [preferredGenre |-> Opt("users_preferredgenre_enum")]),
  CreateType("users_preferreddecade_enum", {"decade"}),
  AddColumns("users", [preferredDecade |-> Opt("users_preferreddecade_enum")]) >>
AddUserPreferences_down == <<
  DropColumns("users", {"preferredDecade"}), DropType("users_preferreddecade_enum"),
  DropColumns("users", {"preferredGenre"}), DropType("users_preferredgenre_enum") >>

AddMockTokenBalanceToUsers_up == << AddColumns("users", [mockTokenBalance |-> Def("int")]) >>
AddMockTokenBalanceToUsers_down == << DropColumns("users", {"mockTokenBalance"}) >>

AddMultiplayerSupportToGameSessions_up == <<
  CreateType("game_mode_enum", {"single_player", "multiplayer", "wagered"}),
  AddLabel("game_session_status_enum", "waiting_for_player"),
  AddColumns("game_sessions",
    [playerTwoId |-> Opt("uuid"), playerTwoScore |-> Def("int"), mode |-> Def("game_mode_enum"),
     winnerId |-> Opt("uuid"), wagerAmount |-> Opt("int"), hasWager |-> Def("val"),
     completedAt |-> Opt("ts")]),
  AddForeignKey("FK_game_sessions_player_two", "game_sessions", "playerTwoId", "users"),
  AddForeignKey("FK_game_sessions_winner", "game_sessions", "winnerId", "users") >>
AddMultiplayerSupportToGameSessions_down == <<
  DropConstraint("FK_game_sessions_winner"), DropConstraint("FK_game_sessions_player_two"),
  DropColumns("game_sessions", {"completedAt", "hasWager", "wagerAmount", "winnerId", "mode",
                                "playerTwoScore", "playerTwoId"}),
  DropType("game_mode_enum") >>

CreateWagersTable_up == <<
  CreateType("wager_status_enum", {"pending", "staked", "won", "lost", "refunded"}),
  CreateTable("wagers",
    [id |-> Def("uuid"), sessionId |-> Req("uuid"), playerAId |-> Req("uuid"),
     playerBId |-> Req("uuid"), amount |-> Req("int"), totalPot |-> Req("int"),
     status |-> Def("wager_status_enum"), winnerId |-> Opt("uuid"), resultMessage |-> Opt("val"),
     createdAt |-> Def("ts"), updatedAt |-> Def("ts"), resolvedAt |-> Opt("ts")]),
  AddForeignKey("FK_wagers_player_a", "wagers", "playerAId", "users"),
  AddForeignKey("FK_wagers_player_b", "wagers", "playerBId", "users"),
  AddForeignKey("FK_wagers_winner", "wagers", "winnerId", "users"),
  CreateIndex("IDX_wagers_session_id", "wagers", {"sessionId"}) >>
CreateWagersTable_down == <<
  DropIndex("IDX_wagers_session_id"), DropConstraint("FK_wagers_winner"),
  DropConstraint("FK_wagers_player_b"), DropConstraint("FK_wagers_player_a"),
  DropTable("wagers"), DropType("wager_status_enum") >>

AddCaseInsensitiveUniqueIndexToUsers_up(s) ==
  << CreateIndex("IDX_users_email_lower", "users", {"email"}) >>
  \o (IF HasColumn(s, "users", "username")
      THEN << CreateIndex("IDX_users_username_lower", "users", {"username"}) >> ELSE <<>>)
AddCaseInsensitiveUniqueIndexToUsers_down == <<
  IfThere(DropIndex("IDX_users_username_lower")), DropIndex("IDX_users_email_lower") >>

\* The constraint's name is looked up; every one there is carries one of two.
AddSetNullToLyricsCreatedBy_up(s) ==
  IF ~HasTable(s, "lyrics") THEN <<>> ELSE <<
  IfThere(DropConstraint("FK_lyrics_createdById")), IfThere(DropConstraint("FK_lyrics_created_by")),
  SetNotNull("lyrics", "createdById", FALSE),
  AddForeignKey("FK_lyrics_created_by", "lyrics", "createdById", "users") >>
AddSetNullToLyricsCreatedBy_down(s) ==
  IF ~HasTable(s, "lyrics") THEN <<>> ELSE <<
  DropConstraint("FK_lyrics_created_by"), SetNotNull("lyrics", "createdById", TRUE),
  AddForeignKey("FK_lyrics_created_by", "lyrics", "createdById", "users") >>

CreateRefreshTokensTable_up == <<
  CreateTable("refresh_tokens",
    [id |-> Def("uuid"), userId |-> Req("uuid"), tokenHash |-> Req("val"),
     expiresAt |-> Req("ts"), revokedAt |-> Opt("ts"), createdAt |-> Def("ts")]),
  AddForeignKey("FK_refresh_tokens_user", "refresh_tokens", "userId", "users"),
  CreateIndex("IDX_refresh_tokens_token_hash", "refresh_tokens", {"tokenHash"}),
  CreateIndex("IDX_refresh_tokens_user_id", "refresh_tokens", {"userId"}) >>
CreateRefreshTokensTable_down == <<
  DropIndex("IDX_refresh_tokens_user_id"), DropIndex("IDX_refresh_tokens_token_hash"),
  DropConstraint("FK_refresh_tokens_user"), DropTable("refresh_tokens") >>

AddTokenVersionToUsers_up == << AddColumns("users", [tokenVersion |-> Def("int")]) >>
AddTokenVersionToUsers_down == << DropColumns("users", {"tokenVersion"}) >>

MigrateWagersToStellarEscrow_up == <<
  AddColumns("users", [stellarAddress |-> Opt("val"), stellarAddressVerifiedAt |-> Opt("ts")]),
  CreateIndex("UQ_users_stellar_address", "users", {"stellarAddress"}),
  RenameColumn("users", "mockTokenBalance", "mockBalance"),
  SetDefault("users", "mockBalance", FALSE), SetType("users", "mockBalance", "bigint"),
  SetDefault("users", "mockBalance", TRUE),
  RenameColumn("wagers", "amount", "stakeStroops"), SetType("wagers", "stakeStroops", "bigint"),
  RenameColumn("wagers", "totalPot", "totalPotStroops"),
  SetType("wagers", "totalPotStroops", "bigint"),
  RenameType("wager_status_enum", "wager_status_enum_old"),
  CreateType("wager_status_enum", {"pending", "awaiting_stakes", "staked", "settling", "won",
                                   "refunded", "failed"}),
  SetDefault("wagers", "status", FALSE), SetType("wagers", "status", "wager_status_enum"),
  SetDefault("wagers", "status", TRUE), DropType("wager_status_enum_old"),
  AddColumns("wagers",
    [settlementMode |-> Def("val"), escrowTxHash |-> Opt("val"), playerAStakeTxHash |-> Opt("val"),
     playerBStakeTxHash |-> Opt("val"), settlementTxHash |-> Opt("val"),
     settlementLedger |-> Opt("bigint")]),
  DropIndex("IDX_wagers_session_id"),
  CreateIndex("UQ_wagers_session_id", "wagers", {"sessionId"}),
  RenameColumn("game_sessions", "wagerAmount", "wagerStroops"),
  SetType("game_sessions", "wagerStroops", "bigint") >>
MigrateWagersToStellarEscrow_down == <<
  SetType("game_sessions", "wagerStroops", "int"),
  RenameColumn("game_sessions", "wagerStroops", "wagerAmount"),
  DropIndex("UQ_wagers_session_id"),
  CreateIndex("IDX_wagers_session_id", "wagers", {"sessionId"}),
  DropColumns("wagers", {"settlementLedger", "settlementTxHash", "playerBStakeTxHash",
                         "playerAStakeTxHash", "escrowTxHash", "settlementMode"}),
  RenameType("wager_status_enum", "wager_status_enum_new"),
  CreateType("wager_status_enum", {"pending", "staked", "won", "lost", "refunded"}),
  SetDefault("wagers", "status", FALSE), SetType("wagers", "status", "wager_status_enum"),
  SetDefault("wagers", "status", TRUE), DropType("wager_status_enum_new"),
  SetType("wagers", "totalPotStroops", "int"),
  RenameColumn("wagers", "totalPotStroops", "totalPot"),
  SetType("wagers", "stakeStroops", "int"), RenameColumn("wagers", "stakeStroops", "amount"),
  SetDefault("users", "mockBalance", FALSE), SetType("users", "mockBalance", "int"),
  SetDefault("users", "mockBalance", TRUE),
  RenameColumn("users", "mockBalance", "mockTokenBalance"),
  DropIndex("UQ_users_stellar_address"),
  DropColumns("users", {"stellarAddressVerifiedAt", "stellarAddress"}) >>

CreateGameRoundsTable_up == <<
  CreateTable("game_rounds",
    [id |-> Def("uuid"), userId |-> Req("uuid"), lyricId |-> Req("int"), issuedAt |-> Def("ts"),
     expiresAt |-> Req("ts"), closedAt |-> Opt("ts")]),
  CreateIndex("IDX_game_rounds_user_id", "game_rounds", {"userId"}) >>
CreateGameRoundsTable_down == << DropIndex("IDX_game_rounds_user_id"), DropTable("game_rounds") >>

AddLatestStakeHashesToWagers_up ==
  << AddColumns("wagers", [playerALatestStakeHash |-> Opt("val"), playerBLatestStakeHash |-> Opt("val")]) >>
AddLatestStakeHashesToWagers_down ==
  << DropColumns("wagers", {"playerBLatestStakeHash", "playerALatestStakeHash"}) >>

CreateAuditLogsTable_up == <<
  IfNew(CreateTable("audit_logs",
    [id |-> Def("uuid"), actorId |-> Req("val"), action |-> Req("val"), targetType |-> Opt("val"),
     targetId |-> Opt("val"), payload |-> Opt("val"), ip |-> Opt("val"), timestamp |-> Def("ts")])),
  IfNew(CreateIndex("IDX_audit_logs_actor_id", "audit_logs", {"actorId"})),
  IfNew(CreateIndex("IDX_audit_logs_action", "audit_logs", {"action"})),
  IfNew(CreateIndex("IDX_audit_logs_target_id", "audit_logs", {"targetId"})) >>
CreateAuditLogsTable_down == <<
  DropIndex("IDX_audit_logs_target_id"), DropIndex("IDX_audit_logs_action"),
  DropIndex("IDX_audit_logs_actor_id"), DropTable("audit_logs") >>

RepairSchemaToMatchEntities_up == <<
  DropConstraint("FK_player_game_session"), DropConstraint("FK_game_sessions_player_two"),
  DropConstraint("FK_game_sessions_winner"), DropConstraint("FK_wagers_player_a"),
  DropConstraint("FK_wagers_player_b"), DropConstraint("FK_wagers_winner"),
  DropConstraint("FK_room_users_roomId"), DropIndex("UQ_users_stellar_address"),
  DropIndex("UQ_wagers_session_id"), DropIndex("IDX_game_rounds_user_id"),
  CreateType("lyrics_genre_enum", {"genre"}),
  CreateTable("lyrics",
    [id |-> Def("int"), content |-> Req("val"), artist |-> Req("val"), lyricSnippet |-> Req("val"),
     songTitle |-> Req("val"), category |-> Opt("val"), genre |-> Def("lyrics_genre_enum"),
     decade |-> Req("val"), difficulty |-> Def("int"), isActive |-> Def("val"),
     timesUsed |-> Def("int"), createdAt |-> Def("ts"), updatedAt |-> Def("ts"),
     createdById |-> Req("uuid")]),
  AddUnique("UQ_lyrics_artist_songTitle", "lyrics", {"artist", "songTitle"}),
  CreateIndex("IDX_lyrics_category", "lyrics", {"category"}),
  CreateIndex("IDX_lyrics_genre", "lyrics", {"genre"}),
  CreateIndex("IDX_lyrics_decade", "lyrics", {"decade"}),
  CreateType("game_history_guesstype_enum", {"artist", "songTitle"}),
  CreateTable("game_history",
    [id |-> Def("uuid"), playerId |-> Req("uuid"), lyricId |-> Req("int"),
     gameSessionId |-> Opt("uuid"), guessType |-> Req("game_history_guesstype_enum"),
     guessValue |-> Req("val"), isCorrect |-> Req("val"), pointsAwarded |-> Def("int"),
     xpChange |-> Def("int"), wagerAmount |-> Opt("int"), createdAt |-> Def("ts")]),
  CreateIndex("IDX_game_history_playerId", "game_history", {"playerId"}),
  CreateIndex("IDX_game_history_lyricId", "game_history", {"lyricId"}),
  CreateIndex("IDX_game_history_gameSessionId", "game_history", {"gameSessionId"}),
  CreateIndex("IDX_game_history_isCorrect", "game_history", {"isCorrect"}),
  CreateIndex("IDX_game_history_createdAt", "game_history", {"createdAt"}),
  AddColumns("users", [username |-> Req("val")]),
  AddUnique("UQ_users_username", "users", {"username"}),
  AddColumns("users", [xp |-> Def("int")]), AddColumns("users", [level |-> Def("int")]),
  CreateType("users_leveltitle_enum", {"title"}),
  AddColumns("users", [levelTitle |-> Def("users_leveltitle_enum")]),
  AddColumns("users", [lastLoginAt |-> Opt("ts")]), AddColumns("users", [role |-> Def("val")]),
  AddColumns("users", [isActive |-> Def("val")]),
  AddUnique("UQ_users_stellarAddress", "users", {"stellarAddress"}),
  DropColumns("room_users", {"userId"}), AddColumns("room_users", [userId |-> Req("uuid")]),
  SetDefault("room_users", "joinedAt", TRUE), SetDefault("rooms", "createdAt", TRUE),
  CreateIndex("IDX_users_stellarAddress", "users", {"stellarAddress"}),
  CreateIndex("IDX_wagers_sessionId", "wagers", {"sessionId"}),
  CreateIndex("IDX_game_rounds_userId", "game_rounds", {"userId"}),
  AddUnique("UQ_room_users_userId_roomId", "room_users", {"userId", "roomId"}),
  AddForeignKey("FK_game_sessions_playerId", "game_sessions", "playerId", "users"),
  AddForeignKey("FK_game_sessions_playerTwoId", "game_sessions", "playerTwoId", "users"),
  AddForeignKey("FK_game_sessions_winnerId", "game_sessions", "winnerId", "users"),
  AddForeignKey("FK_wagers_playerAId", "wagers", "playerAId", "users"),
  AddForeignKey("FK_wagers_playerBId", "wagers", "playerBId", "users"),
  AddForeignKey("FK_wagers_winnerId", "wagers", "winnerId", "users"),
  AddForeignKey("FK_lyrics_createdById", "lyrics", "createdById", "users"),
  AddForeignKey("FK_room_users_userId", "room_users", "userId", "users"),
  AddForeignKey("FK_room_users_roomId", "room_users", "roomId", "rooms"),
  AddForeignKey("FK_rooms_lyricId", "rooms", "lyricId", "lyrics"),
  AddForeignKey("FK_game_history_playerId", "game_history", "playerId", "users"),
  AddForeignKey("FK_game_history_lyricId", "game_history", "lyricId", "lyrics"),
  AddForeignKey("FK_game_history_gameSessionId", "game_history", "gameSessionId", "game_sessions") >>
RepairSchemaToMatchEntities_down == <<
  DropConstraint("FK_game_history_gameSessionId"), DropConstraint("FK_game_history_lyricId"),
  DropConstraint("FK_game_history_playerId"), DropConstraint("FK_rooms_lyricId"),
  DropConstraint("FK_room_users_roomId"), DropConstraint("FK_room_users_userId"),
  DropConstraint("FK_lyrics_createdById"), DropConstraint("FK_wagers_winnerId"),
  DropConstraint("FK_wagers_playerBId"), DropConstraint("FK_wagers_playerAId"),
  DropConstraint("FK_game_sessions_winnerId"), DropConstraint("FK_game_sessions_playerTwoId"),
  DropConstraint("FK_game_sessions_playerId"), DropConstraint("UQ_room_users_userId_roomId"),
  DropIndex("IDX_game_rounds_userId"), DropIndex("IDX_wagers_sessionId"),
  DropIndex("IDX_users_stellarAddress"), SetDefault("rooms", "createdAt", TRUE),
  SetDefault("room_users", "joinedAt", TRUE), DropColumns("room_users", {"userId"}),
  AddColumns("room_users", [userId |-> Req("int")]), DropConstraint("UQ_users_stellarAddress"),
  DropColumns("users", {"isActive"}), DropColumns("users", {"role"}),
  DropColumns("users", {"lastLoginAt"}), DropColumns("users", {"levelTitle"}),
  DropType("users_leveltitle_enum"), DropColumns("users", {"level"}), DropColumns("users", {"xp"}),
  DropConstraint("UQ_users_username"), DropColumns("users", {"username"}),
  DropIndex("IDX_game_history_createdAt"), DropIndex("IDX_game_history_isCorrect"),
  DropIndex("IDX_game_history_gameSessionId"), DropIndex("IDX_game_history_lyricId"),
  DropIndex("IDX_game_history_playerId"), DropTable("game_history"),
  DropType("game_history_guesstype_enum"), DropIndex("IDX_lyrics_decade"),
  DropIndex("IDX_lyrics_genre"), DropIndex("IDX_lyrics_category"), DropTable("lyrics"),
  DropType("lyrics_genre_enum"), CreateIndex("IDX_game_rounds_user_id", "game_rounds", {"userId"}),
  CreateIndex("UQ_wagers_session_id", "wagers", {"sessionId"}),
  CreateIndex("UQ_users_stellar_address", "users", {"stellarAddress"}),
  AddForeignKey("FK_room_users_roomId", "room_users", "roomId", "rooms"),
  AddForeignKey("FK_wagers_winner", "wagers", "winnerId", "users"),
  AddForeignKey("FK_wagers_player_b", "wagers", "playerBId", "users"),
  AddForeignKey("FK_wagers_player_a", "wagers", "playerAId", "users"),
  AddForeignKey("FK_game_sessions_winner", "game_sessions", "winnerId", "users"),
  AddForeignKey("FK_game_sessions_player_two", "game_sessions", "playerTwoId", "users"),
  AddForeignKey("FK_player_game_session", "game_sessions", "playerId", "users") >>

\* Renames an enum label that no database built by this chain has.
RenameGossipGodToGossipGuru_up == <<>>
RenameGossipGodToGossipGuru_down == <<>>

AddStakeDeadlineToWagers_up == << AddColumns("wagers", [stakeDeadline |-> Opt("ts")]) >>
AddStakeDeadlineToWagers_down == << DropColumns("wagers", {"stakeDeadline"}) >>

AddTimedRoundsHintsAndDailyChallenges_up == <<
  AddColumns("game_rounds",
    [answerWindowSeconds |-> Def("int"), hintsUsed |-> Def("int"), sessionId |-> Opt("uuid")]),
  CreateTable("daily_challenges",
    [date |-> Req("val"), lyricIds |-> Req("val"), createdAt |-> Def("ts")]),
  CreateTable("daily_challenge_attempts",
    [id |-> Def("uuid"), userId |-> Req("uuid"), challengeDate |-> Req("val"), lyricId |-> Req("int"),
     guessType |-> Req("val"), isCorrect |-> Req("val"), points |-> Req("int"), createdAt |-> Def("ts")]),
  AddUnique("UQ_daily_attempt_user_day_lyric", "daily_challenge_attempts",
            {"userId", "challengeDate", "lyricId"}),
  CreateIndex("IDX_daily_attempt_day", "daily_challenge_attempts", {"challengeDate"}) >>
AddTimedRoundsHintsAndDailyChallenges_down == <<
  DropIndex("IDX_daily_attempt_day"), DropTable("daily_challenge_attempts"),
  DropTable("daily_challenges"),
  DropColumns("game_rounds", {"sessionId", "hintsUsed", "answerWindowSeconds"}) >>

AddDifficultyConstraintAndDefault_up == <<
  Update("lyrics", {"difficulty"}), SetDefault("lyrics", "difficulty", TRUE),
  AddCheck("CHK_lyrics_difficulty", "lyrics", {"difficulty"}) >>
AddDifficultyConstraintAndDefault_down == <<
  DropConstraint("CHK_lyrics_difficulty"), SetDefault("lyrics", "difficulty", TRUE) >>

\* The columns and keys of email_tokens and password_reset_tokens.
TokenTable(t, extra) == <<
  CreateTable(t, extra @@
    [id |-> Def("uuid"), userId |-> Req("uuid"), tokenHash |-> Req("val"),
     expiresAt |-> Req("ts"), usedAt |-> Opt("ts"), createdAt |-> Def("ts")]),
  AddUnique("UQ_" \o t \o "_tokenHash", t, {"tokenHash"}),
  AddForeignKey("FK_" \o t \o "_userId", t, "userId", "users"),
  CreateIndex("IDX_hand_" \o t \o "_userId", t, {"userId"}),
  CreateIndex("IDX_hand_" \o t \o "_tokenHash", t, {"tokenHash"}) >>

AddEmailVerificationAndPasswordReset_up(s) ==
  (IF HasTable(s, "users") /\ ~HasColumn(s, "users", "emailVerifiedAt")
   THEN << AddColumns("users", [emailVerifiedAt |-> Opt("ts")]) >> ELSE <<>>)
  \o (IF HasTable(s, "email_tokens") THEN <<>>
      ELSE TokenTable("email_tokens", [purpose |-> Def("val")]))
  \o (IF HasTable(s, "password_reset_tokens") THEN <<>>
      ELSE TokenTable("password_reset_tokens", <<>>))
AddEmailVerificationAndPasswordReset_down == <<
  IfThere(DropTable("password_reset_tokens")), IfThere(DropTable("email_tokens")),
  IfThere(DropColumns("users", {"emailVerifiedAt"})) >>

AddRoomCodeHostAndLifecycle_up == <<
  IfNew(CreateType("rooms_status_enum", {"lobby", "in_progress", "finished"})),
  IfNew(AddColumns("rooms",
    [code |-> Opt("val"), hostId |-> Opt("val"), maxPlayers |-> Def("int"),
     status |-> Def("rooms_status_enum"), startedAt |-> Opt("ts"), roundCount |-> Def("int")])),
  Update("rooms", {"code"}), Update("rooms", {"status", "isClosed"}),
  SetNotNull("rooms", "code", TRUE), IfThere(DropConstraint("UQ_rooms_code")),
  AddUnique("UQ_rooms_code", "rooms", {"code"}),
  IfNew(CreateIndex("IDX_rooms_code", "rooms", {"code"})) >>
AddRoomCodeHostAndLifecycle_down == <<
  IfThere(DropIndex("IDX_rooms_code")), IfThere(DropConstraint("UQ_rooms_code")),
  IfThere(DropColumns("rooms", {"roundCount", "startedAt", "status", "maxPlayers", "hostId", "code"})),
  IfThere(DropType("rooms_status_enum")) >>

AddSourceAndRightsToLyrics_up == <<
  AddColumns("lyrics", [source |-> Def("val"), sourceUrl |-> Opt("val"), licence |-> Opt("val"),
                        addedBy |-> Opt("val")]),
  SetDefault("lyrics", "source", FALSE), Update("lyrics", {"addedBy", "createdById"}),
  CreateIndex("IDX_lyrics_source", "lyrics", {"source"}),
  SetNotNull("lyrics", "content", FALSE), Update("lyrics", {"content"}) >>
AddSourceAndRightsToLyrics_down == <<
  Update("lyrics", {"content", "lyricSnippet"}), SetNotNull("lyrics", "content", TRUE),
  DropIndex("IDX_lyrics_source"),
  DropColumns("lyrics", {"addedBy", "licence", "sourceUrl", "source"}) >>

ConvertTimestampsToTimestamptz_up == << RetypeAll("ts", "tz") >>
ConvertTimestampsToTimestamptz_down == << RetypeAll("tz", "ts") >>

AddAliasesAndFixLyricsCreatedBy_up == <<
  IfNew(AddColumns("lyrics", [artistAliases |-> Def("val"), titleAliases |-> Def("val")])),
  IfThere(DropConstraint("FK_lyrics_created_by")), IfThere(DropConstraint("FK_lyrics_createdById")),
  SetNotNull("lyrics", "createdById", FALSE),
  AddForeignKey("FK_lyrics_createdById", "lyrics", "createdById", "users"),
  IfThere(DropConstraint("CHK_lyrics_difficulty")), IfThere(DropConstraint("CHK_lyrics_derived")),
  AddCheck("CHK_lyrics_derived", "lyrics", {"difficulty"}) >>
AddAliasesAndFixLyricsCreatedBy_down == <<
  DropConstraint("CHK_lyrics_derived"), AddCheck("CHK_lyrics_difficulty", "lyrics", {"difficulty"}),
  DropColumns("lyrics", {"titleAliases", "artistAliases"}) >>

AuditLogsAppendOnlyTrigger_up == << CreateTrigger("audit_logs") >>
AuditLogsAppendOnlyTrigger_down == << DropTrigger("audit_logs") >>

AddWagerSettlementIntent_up == <<
  IfNew(CreateType("settlement_kind_enum", {"payout", "refund"})),
  IfNew(AddColumns("wagers",
    [settlementKind |-> Opt("settlement_kind_enum"), intendedWinnerId |-> Opt("uuid")])) >>
AddWagerSettlementIntent_down == <<
  IfThere(DropColumns("wagers", {"intendedWinnerId", "settlementKind"})),
  IfThere(DropType("settlement_kind_enum")) >>

ONE_TIME_TOKEN_TABLES == << "email_tokens", "password_reset_tokens" >>

alignOneTimeTokenTable(t) == <<
  RenameIndex("IDX_hand_" \o t \o "_userId", "IDX_" \o t \o "_userId"),
  RenameIndex("IDX_hand_" \o t \o "_tokenHash", "IDX_" \o t \o "_tokenHash"),
  IfNew(CreateIndex("IDX_" \o t \o "_userId", t, {"userId"})),
  IfNew(CreateIndex("IDX_" \o t \o "_tokenHash", t, {"tokenHash"})),
  IfThere(DropConstraint("UQ_" \o t \o "_tokenHash")),
  Retype(t, "expiresAt", "ts", "tz"), Retype(t, "usedAt", "ts", "tz"),
  Retype(t, "createdAt", "ts", "tz"), SetDefault(t, "createdAt", TRUE) >>

AlignAuthTokenTables_up == <<
  RenameIndex("IDX_refresh_tokens_token_hash", "IDX_refresh_tokens_tokenHash"),
  RenameIndex("IDX_refresh_tokens_user_id", "IDX_refresh_tokens_userId"),
  IfNew(CreateIndex("IDX_refresh_tokens_tokenHash", "refresh_tokens", {"tokenHash"})),
  IfNew(CreateIndex("IDX_refresh_tokens_userId", "refresh_tokens", {"userId"})),
  IfThere(DropConstraint("FK_refresh_tokens_user")), IfThere(DropConstraint("FK_refresh_tokens_userId")),
  AddForeignKey("FK_refresh_tokens_userId", "refresh_tokens", "userId", "users"),
  Retype("refresh_tokens", "expiresAt", "ts", "tz"), Retype("refresh_tokens", "revokedAt", "ts", "tz"),
  Retype("refresh_tokens", "createdAt", "ts", "tz"),
  Update("email_tokens", {"purpose"}), SetDefault("email_tokens", "purpose", TRUE) >>
  \o FlattenSeq([i \in 1..2 |-> alignOneTimeTokenTable(ONE_TIME_TOKEN_TABLES[i])])
AlignAuthTokenTables_down ==
  FlattenSeq([i \in 1..2 |->
    LET t == ONE_TIME_TOKEN_TABLES[3 - i]
    IN << SetDefault(t, "createdAt", TRUE), Retype(t, "expiresAt", "tz", "ts"),
          Retype(t, "usedAt", "tz", "ts"), Retype(t, "createdAt", "tz", "ts"),
          RenameIndex("IDX_" \o t \o "_tokenHash", "IDX_hand_" \o t \o "_tokenHash"),
          RenameIndex("IDX_" \o t \o "_userId", "IDX_hand_" \o t \o "_userId"),
          AddUnique("UQ_" \o t \o "_tokenHash", t, {"tokenHash"}) >>])
  \o <<
  SetDefault("email_tokens", "purpose", TRUE), Update("email_tokens", {"purpose"}),
  Retype("refresh_tokens", "expiresAt", "tz", "ts"), Retype("refresh_tokens", "revokedAt", "tz", "ts"),
  Retype("refresh_tokens", "createdAt", "tz", "ts"),
  DropConstraint("FK_refresh_tokens_userId"),
  AddForeignKey("FK_refresh_tokens_user", "refresh_tokens", "userId", "users"),
  RenameIndex("IDX_refresh_tokens_userId", "IDX_refresh_tokens_user_id"),
  RenameIndex("IDX_refresh_tokens_tokenHash", "IDX_refresh_tokens_token_hash") >>

AddResponsiblePlayColumnsToUsers_up == <<
  IfNew(AddColumns("users",
    [dailyStakeLimit |-> Opt("bigint"), dailyStakeLimitEffectiveAt |-> Opt("ts"),
     selfExclusionEndsAt |-> Opt("ts")])),
  IfNew(CreateIndex("IDX_users_username_lower", "users", {"username"})) >>
AddResponsiblePlayColumnsToUsers_down == <<
  IfThere(DropColumns("users",
    {"selfExclusionEndsAt", "dailyStakeLimitEffectiveAt", "dailyStakeLimit"})) >>

CreateNotificationsTable_up == <<
  IfNew(CreateTable("notifications",
    [id |-> Def("uuid"), userId |-> Req("uuid"), type |-> Req("val"), payload |-> Def("val"),
     readAt |-> Opt("tz"), createdAt |-> Def("tz")])),
  IfNew(CreateIndex("IDX_notifications_userId_createdAt", "notifications", {"userId", "createdAt"})) >>
CreateNotificationsTable_down == <<
  IfThere(DropIndex("IDX_notifications_userId_createdAt")), IfThere(DropTable("notifications")) >>

\* Hand-written name, derived name and column of audit_logs' indexes.
auditLogIndexes == <<
  << "IDX_audit_logs_actor_id", "IDX_audit_logs_actorId", "actorId" >>,
  << "IDX_audit_logs_action", "IDX_audit_logs_derived_action", "action" >>,
  << "IDX_audit_logs_target_id", "IDX_audit_logs_targetId", "targetId" >> >>

AlignIndexNames_up ==
  FlattenSeq([i \in 1..3 |->
    << RenameIndex(auditLogIndexes[i][1], auditLogIndexes[i][2]),
       IfNew(CreateIndex(auditLogIndexes[i][2], "audit_logs", {auditLogIndexes[i][3]})) >>])
  \o << IfNew(CreateIndex("IDX_game_history_createdAt_playerId", "game_history", {"createdAt", "playerId"})),
        IfNew(CreateIndex("IDX_game_rounds_user_issued", "game_rounds", {"userId", "issuedAt"})) >>
AlignIndexNames_down ==
  << IfThere(DropIndex("IDX_game_rounds_user_issued")),
     IfThere(DropIndex("IDX_game_history_createdAt_playerId")) >>
  \o [i \in 1..3 |-> RenameIndex(auditLogIndexes[i][2], auditLogIndexes[i][1])]

AddSessionMetadataToRefreshTokens_up == <<
  AddColumns("refresh_tokens", [userAgent |-> Opt("val"), ip |-> Opt("val"), lastUsedAt |-> Opt("tz"),
                                deviceName |-> Opt("val")]),
  CreateIndex("IDX_refresh_tokens_expiresAt", "refresh_tokens", {"expiresAt"}),
  CreateIndex("IDX_refresh_tokens_revokedAt", "refresh_tokens", {"revokedAt"}) >>
AddSessionMetadataToRefreshTokens_down == <<
  DropIndex("IDX_refresh_tokens_revokedAt"), DropIndex("IDX_refresh_tokens_expiresAt"),
  DropColumns("refresh_tokens", {"deviceName", "lastUsedAt", "ip", "userAgent"}) >>

CreateGameHistoryArchive_up == <<
  CreateTableLike("game_history_archive", "game_history"),
  AddUnique("PK_game_history_archive", "game_history_archive", {"id"}),
  CreateIndex("IDX_game_history_archive_playerId", "game_history_archive", {"playerId"}) >>
CreateGameHistoryArchive_down ==
  << CopyRows("game_history", "game_history_archive"), DropTable("game_history_archive") >>
============================================================================
