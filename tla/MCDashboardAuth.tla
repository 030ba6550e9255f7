--------------------------- MODULE MCDashboardAuth ---------------------------
\* What the clients of the account do, in the checked instance of DashboardAuth:
\* every behaviour uses the calls of one workload, so that calls whose rows are not
\* the same do not multiply each other's states.
EXTENDS DashboardAuth, TLC

Enter    == {"register", "login"}
Forgets  == {"forgot", "reset"}
UsesTOTP == {"setup", "verify"}

AllWorkloads == {
    Enter \union {"refresh", "logout", "expire"},
    Enter \union Forgets \union {"expire"},
    Enter \union Forgets \union {"refresh", "logout", "change"},
    Enter \union Forgets \union UsesTOTP,
    Enter \union UsesTOTP \union {"refresh", "disable"},
    Enter \union UsesTOTP \union {"recover", "disable", "regenerate"}}

Symmetry == Permutations(Handler)
================================================================================
