------------------------------- MODULE MCBrowser -------------------------------
EXTENDS Browser

CONSTANTS MCLogin, MCAttempt

Trip(pages, logins, attempts, writes) ==
    [pages |-> pages, logins |-> logins, attempts |-> attempts, writes |-> writes]

\* Each page with one beside it to leave for, and two reports, or one while
\* another tab writes; the pages a login passes, with two logins at once; and a
\* report sent around a login.
MCTrips == {
    Trip({"/checkin", "/dashboard"}, {}, {}, 0),
    Trip({"/emergency", "/dashboard"}, {}, {}, 0),
    Trip({"/dao", "/dao/proposals/1"}, {}, {}, 0),
    Trip({"/report", "/registry"}, {}, Attempts, 0),
    Trip({"/report", "/registry"}, {}, {MCAttempt}, 1),
    Trip({"/", "/login", "/dashboard"}, Logins, {}, 0),
    Trip({"/login", "/dashboard", "/report"}, {MCLogin}, {MCAttempt}, 0)}
===============================================================================
