------------------------------ MODULE MCHttpServer -----------------------------
(* Model checking of HttpServer: the pieces make up whole requests, with   *)
(* headers and without, requests cut off anywhere, blank lines, a line     *)
(* without a method and one without a space, and CR and LF on their own.   *)
EXTENDS HttpServer

MCPiece == {<<"GET", "sp", "/", "cr", "lf", "cr", "lf">>,
            <<"PUT", "sp", "/", "sp", "v", "cr", "lf">>,
            <<"sp", "v", "cr", "lf">>,
            <<"GET", "sp", "/hello">>, <<"cr">>, <<"lf">>}
================================================================================
