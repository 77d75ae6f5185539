---------------------------- MODULE MCProgramEdit ----------------------------
(* ProgramEdit for TLC.                                                     *)
EXTENDS ProgramEdit, TLC

\* A program with the given name and interval.
Program(name, cycle, period, synchro) ==
    [name |-> name, inter_station_delay |-> 5, water_budget |-> 258, cycle |-> cycle,
     week_days |-> 127, period_length |-> period, synchro_day |-> synchro,
     start_times |-> [s \in 0 .. 7 |-> IF s = 7 THEN 270 ELSE None],
     station_durations |-> [t \in 0 .. 11 |-> 1000 + t]]

Twenty == [i \in 1 .. 20 |-> 64 + i]
Fifty  == [i \in 1 .. 50 |-> 64 + i]

\* A weekday program, an interval program about to run, and a hidden one.
MCFactory ==
    {(0 :> Program(<<65>>, 0, 1, 0)) @@ (1 :> Program(Twenty, 4, 3, 0)) @@ (2 :> Program(<<>>, 4, 2, 1))}

Starts == <<None, 0, 1439, 270, None, None, 256, None>>

MCChanges ==
    {[name |-> SubSeq(Fifty, 1, 31), start_times |-> Starts, week_days |-> 65],
     [name |-> <<66>>, inter_station_delay |-> 65535,
      station_durations |-> (5 :> 66051) @@ (6 :> 0) @@ (10 :> 9) @@ (11 :> 16777215) @@ (12 :> 7)],
     [cycle |-> 4, water_budget |-> 513], [period_length |-> 2, cycle |-> 4, synchro_day |-> 1]}

Request(name, cycle, period, synchro, anchor) ==
    [name |-> name, inter_station_delay |-> 300, water_budget |-> 100, cycle |-> cycle,
     week_days |-> 1, period_length |-> period, synchro_day |-> synchro, anchor |-> anchor,
     start_times |-> <<0, None, 720>>, station_durations |-> <<70000, 1, 2, 3, 4, 5, 6, 7, 8, 9, 10, 11>>]

MCRequests ==
    {Request(Fifty, 2, 0, 7, {}), Request(<<68>>, 4, 3, 200, {-1})}
=============================================================================
