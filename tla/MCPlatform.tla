------------------------------ MODULE MCPlatform ------------------------------
(* Small instances of Platform for TLC. *)
EXTENDS Platform, TLC

\* Issue v1 knows DEL's station in its second line for DEL; v2 has lost the station, its
\* airlines and its routes; a file cut short ends in a line of twelve fields, or has none.
MCAirportRows ==
    [i \in Issues |->
        CASE i = "v1" -> << [width |-> 14, iata |-> "DEL", icao |-> Null, airport |-> TRUE],
                            [width |-> 14, iata |-> "BOM", icao |-> Null, airport |-> TRUE],
                            [width |-> 14, iata |-> "BOM", icao |-> Null, airport |-> FALSE],
                            [width |-> 14, iata |-> "DEL", icao |-> "VIDP", airport |-> TRUE] >>
          [] i = "v2" -> << [width |-> 14, iata |-> "DEL", icao |-> Null, airport |-> TRUE],
                            [width |-> 11, iata |-> "BOM", icao |-> Null, airport |-> TRUE] >>
          [] i = "cut" -> << [width |-> 12, iata |-> "DEL", icao |-> Null, airport |-> TRUE] >>]

MCAirlineRows ==
    [i \in Issues |->
        IF i = "v1"
        THEN << [iata |-> "AI", icao |-> "AIC", active |-> TRUE, indian |-> TRUE],
                [iata |-> "AI", icao |-> Null, active |-> TRUE, indian |-> FALSE] >>
        ELSE <<>>]

MCRouteRows ==
    [i \in Issues |->
        IF i = "v1"
        THEN << [carrier |-> "AI", origin |-> "DEL", destination |-> "BOM"],
                [carrier |-> "AI", origin |-> "DEL", destination |-> "DEL"],
                [carrier |-> Null, origin |-> "DEL", destination |-> "BOM"] >>
        ELSE <<>>]

\* "/" covers every path, "/v1/live" the two live routes.
MCCovers == "/" :> Endpoints @@ "/v1/live" :> {"weather", "aircraft"}
MCLength == "/" :> 1 @@ "/v1/live" :> 8

Down == [enabled |-> TRUE, rate |-> "always", slow |-> FALSE, kind |-> "503"]
SlowAndBroken == [enabled |-> TRUE, rate |-> "sometimes", slow |-> TRUE, kind |-> "timeout"]

MCSettings == {[Default EXCEPT !.enabled = TRUE, !.rate = "sometimes", !.slow = TRUE]}
MCPutConfigs == {[Default EXCEPT !.overrides = ("/" :> Down)]}
MCPatches == {"overrides" :> ("/v1/live" :> SlowAndBroken), "enabled" :> FALSE}

MCAirportAsked == "weather" :> "DEL"
MCCarrierAsked == "aircraft" :> "AI"
MCTTL == "VIDP" :> 1 @@ Sky :> 0
MCPatience == "VIDP" :> 1 @@ Sky :> 1
=============================================================================
