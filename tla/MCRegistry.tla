------------------------------ MODULE MCRegistry ------------------------------
(***************************************************************************)
(* A host with the root cgroup, one docker container "/d", a system slice *)
(* "/m" and an rkt pod "/mr" below it, and an unrelated cgroup "/s".  The  *)
(* whitelist "/m" matches both "/m" and "/mr", as strings.HasPrefix does.  *)
(***************************************************************************)
EXTENDS Registry

\* Names as character sequences.
MCRoot == <<"/">>
MCDocker == <<"/", "d">>
MCSlice == <<"/", "m">>
MCPod == <<"/", "m", "r">>
MCOther == <<"/", "s">>

MCNames == {MCRoot, MCDocker, MCSlice, MCPod, MCOther}
MCDockerNames == {MCDocker}
MCRktNames == {MCPod}

\* --raw_cgroup_prefix_whitelist="" (the default) and ="/m".
MCWhiteLists == {<<<<>>>>, <<MCSlice>>}
\* --raw_cgroup_prefix_whitelist="/m".
MCSliceWhiteList == {<<MCSlice>>}
\* --raw_cgroup_prefix_whitelist="".
MCEmptyWhiteList == {<<<<>>>>}
\* --raw_cgroup_prefix_whitelist="/m," (a trailing comma).
MCTrailingCommaWhiteList == {<<MCSlice, <<>>>>}

=============================================================================
