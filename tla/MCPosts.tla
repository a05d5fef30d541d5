------------------------------ MODULE MCPosts ------------------------------
EXTENDS Posts

MCTitle == {<<"a">>, <<"a", 2>>}
=============================================================================
