------------------------------ MODULE Requests ------------------------------
(* The requests of the web server and the users they may come from, which    *)
(* Sessions and GraphQL have in common.                                      *)

CONSTANTS
    Request,        \* requests the browsers may send: the bound on them
    User,           \* the rows of the users table, which nothing removes
    Nobody          \* no user, no token

=============================================================================
