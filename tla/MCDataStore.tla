----------------------------- MODULE MCDataStore -----------------------------
(* Two threads in two workers, one group of operations at a time.          *)
EXTENDS DataStore, TLC

CONSTANTS w1, w2, t1, t2, u1, u2

MCWorkers == {w1, w2}
MCThreads == {t1, t2}
MCUsers == {u1, u2}
By(who, ops) == ops \X who
MCMixes ==
    {By({NoRow}, {"register_user", "get_user_by_api_key"}) \cup
        By({"first"}, {"authenticate_user"}),
     By({NoRow}, {"request_password_reset"}) \cup By({"new", "other"}, {"reset_password"}) \cup
        By({"first", "new"}, {"authenticate_user"}),
     By(MCUsers, {"stream_travel_events"}) \cup By({u1}, {"validate_thread_ownership"}),
     By({u1}, {"create_watchlist", "list_watchlists", "delete_watchlist"}) \cup
        By({u2}, {"get_watchlist"}),
     By({u1}, {"create_alert", "list_alerts", "delete_alert"}) \cup By(MCUsers, {"mark_alert_read"}),
     By({u1}, {"create_asset", "get_asset", "list_assets"}) \cup By(MCUsers, {"delete_asset"})}
Symmetry == Permutations(MCWorkers) \cup Permutations(MCThreads)

=============================================================================
