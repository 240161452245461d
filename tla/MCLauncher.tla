----------------------------- MODULE MCLauncher -----------------------------
(* Instances of Launcher for TLC. *)
EXTENDS Launcher

CONSTANTS INT, TERM, HUP, QUIT

MCSignals == <<INT, TERM, HUP, QUIT>>

Settings == [backend |-> "auto", gpuMode |-> "auto", allowSoftwareRendering |-> FALSE,
             rootfsVulkan |-> {"asahi", "virtio", "lvp"}, nativeVulkan |-> {"asahi", "panfrost"},
             environment |-> <<>>, nativeEnvironment |-> {}]
Host == [pagesize |-> 16384, drivers |-> {"asahi"}, nixosVulkan |-> {"asahi"},
         path |-> <<>>, rootfsHasIt |-> TRUE,
         plainSocket |-> "live", renamedSocket |-> "absent", ownsRenamed |-> FALSE]

Job == [command |-> "run", arguments |-> TRUE, schema |-> TRUE, root |-> FALSE,
        settings |-> Settings, host |-> Host, source |-> All({"XDG_RUNTIME_DIR"}, "host"),
        signals |-> 0, ignored |-> {}]

SignalJobs ==
    {[Job EXCEPT !.signals = 2],
     [Job EXCEPT !.signals = 1, !.ignored = {HUP}],
     [Job EXCEPT !.signals = 1, !.ignored = {INT, QUIT}]}

\* One signal of each kind.
SingleSignal == {[Job EXCEPT !.signals = 1]}

\* What main and execute look at before they decide anything.
ControlJobs ==
    {[Job EXCEPT !.command = c, !.arguments = a, !.schema = s, !.root = r,
                 !.settings.backend = b, !.host.path = p, !.host.rootfsHasIt = f] :
        c \in {"run", "shell", "binfmt", "doctor", "stop"}, a \in BOOLEAN, s \in BOOLEAN,
        r \in BOOLEAN, b \in {"muvm", "fex"}, f \in BOOLEAN,
        p \in {<<>>, <<"native", "x86">>, <<"native", "unreadable", "x86">>}}

GraphicsJobs ==
    {[Job EXCEPT !.command = "shell", !.settings.backend = b, !.settings.gpuMode = m,
                 !.settings.allowSoftwareRendering = s, !.host.pagesize = p,
                 !.host.drivers = d, !.host.nixosVulkan = n,
                 !.settings.nativeVulkan = {"asahi", "freedreno", "panfrost", "virtio", "lvp"}] :
        b \in {"auto", "muvm"}, m \in {"auto", "drm", "venus", "software"},
        s \in BOOLEAN, p \in {4096, 16384},
        d \in {{}, {"asahi"}, {"asahi", "msm"}, {"panthor"}},
        n \in {{}, {"asahi", "lvp"}, {"panfrost"}, {"lvp"}}}

\* One variable of each kind: of the VM and inherited from it, of the VM only, set by the
\* runtime, a loader's, one of the three controls, FEX's own, none of these.
EnvironmentJobs ==
    {[Job EXCEPT !.command = "shell", !.settings.backend = b, !.settings.gpuMode = m,
                 !.host.pagesize = 4096, !.settings.allowSoftwareRendering = TRUE,
                 !.source = All(k \cup {"XDG_RUNTIME_DIR"}, "host"),
                 !.settings.environment = All(c, "config")] :
        b \in {"fex", "muvm"}, m \in {"drm", "software"},
        k \in SUBSET {"DISPLAY", "WAYLAND_DISPLAY", "PULSE_SERVER", "LD_PRELOAD",
                      "GALLIUM_DRIVER", "FEX_HOSTENV", "TOKEN"},
        c \in {{}, {"LD_PRELOAD", "TOKEN"}, {"DISPLAY"}}}

\* No session to run a VM in, drivers that are configured, and displays to look for.
SessionJobs ==
    {[Job EXCEPT !.command = c, !.source = All(k, "host"),
                 !.settings.nativeEnvironment = {"VK_DRIVER_FILES"},
                 !.host.plainSocket = p, !.host.renamedSocket = "live",
                 !.host.ownsRenamed = o] :
        c \in {"shell", "doctor", "stop"},
        k \in SUBSET {"XDG_RUNTIME_DIR", "DISPLAY", "X11_SOCKET"},
        p \in {"absent", "stale", "live"}, o \in BOOLEAN}

MCJobs == SignalJobs \cup ControlJobs \cup GraphicsJobs \cup EnvironmentJobs \cup SessionJobs
=============================================================================
