------------------------------ MODULE MCPlatform -------------------------------
(* Two resolutions of one package: a Debian platform that uses the host's     *)
(* runtime, a bottle, and a Windows platform that brings its own.             *)
EXTENDS Platform

CONSTANTS r1, r2

Pinned(digests) == [i \in DOMAIN digests |-> [https |-> TRUE, digest |-> digests[i]]]

Serves(name, os, format, runtime, link, bin, digests) ==
  [name |-> name, os |-> os, arch |-> "x86_64", distro |-> Absent, distro_version |-> Absent,
   os_version_min |-> <<>>, format |-> format, runtime |-> runtime,
   include |-> <<<<"include">>>>, lib |-> <<<<"lib">>>>, bin |-> bin, link |-> link,
   files |-> Pinned(digests)]

Sonamed == <<[name |-> "libssl.so.3", byFile |-> TRUE], [name |-> "m", byFile |-> FALSE],
             [name |-> "libcrypto.so.3", byFile |-> TRUE]>>

Doc == [tables |-> {}, pkgconfig |-> "openssl", platforms |-> <<
  Serves("debian", "linux", "deb", "host", Sonamed, <<>>, <<"d1", "d2">>),
  Serves("mac", "macos", "bottle", "bundled", <<>>, <<>>, <<"d1">>),
  Serves("msys", "windows", "pacman", "bundled", <<>>, <<<<"bin">>>>, <<"d2">>)>>]

Machine(os) == [os |-> os, arch |-> "x86_64", distro |-> Absent, distro_version |-> Absent,
                os_version |-> <<>>]

World(os, has, runtime, spoilt, apart, faulty) ==
  [doc |-> Doc, host |-> Machine(os), has |-> has, runtime |-> runtime, kept |-> spoilt,
   apart |-> apart, faults |-> faulty]

\* One at a time, going wrong in every way; the host's own, no runtime, no platform; and two
\* at once on a machine where everything works and nothing was there.
Apart ==
  {World(os, FALSE, TRUE, spoilt, TRUE, FaultKinds) : os \in Oses, spoilt \in {None, "wrong"}}
    \cup {World("linux", has, ~has, None, TRUE, {}) : has \in BOOLEAN}
    \cup {World("linux", FALSE, FALSE, None, TRUE, {}), World("plan9", FALSE, TRUE, None, TRUE, {})}

AtOnce == {World(os, FALSE, TRUE, None, FALSE, {}) : os \in Oses}

\* Windows, where a copy that is cut off stays.
Copying == {World("windows", FALSE, TRUE, None, TRUE, {"crash"})}
=============================================================================
