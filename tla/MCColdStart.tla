------------------------------- MODULE MCColdStart -------------------------------
(* An instance of ColdStart for TLC: one variable the import insists on and *)
(* one the plugins do, with two paths to the second.                        *)
EXTENDS ColdStart

CONSTANTS jwt, cookie, pathJwt, pathCookie, pathCookie2, v1

MCPaths == {pathJwt, pathCookie, pathCookie2}
MCNames == {jwt, cookie}
MCNameOf == [p \in MCPaths |-> IF p = pathJwt THEN jwt ELSE cookie]
MCGivens == {[n \in MCNames |-> Absent],
             [n \in MCNames |-> IF n = cookie THEN v1 ELSE Absent]}
MCDemands == [importing |-> {jwt}, creating |-> {},
              configuring |-> {cookie}, initialising |-> {}]
MCPaginations == {<<>>, <<{pathCookie, pathCookie2, pathJwt}>>,
                  <<{pathJwt}, {}, {pathCookie, pathCookie2}>>}
===============================================================================
