-------------------------- MODULE EnvironmentPolicy --------------------------
(***************************************************************************)
(* What x86-arm decides before it runs anything: the backend, the graphics *)
(* transport and its Vulkan manifests, the program, and which variables go *)
(* to the emulator on the host and which to the application in the guest.  *)
(*                                                                         *)
(* An environment is a function from variable names to the origin of the   *)
(* value: "host" (the caller's), "guest" (this runtime's, for x86),        *)
(* "native" (this runtime's, for ARM), "vm" (the VM's own), "config".      *)
(* A Vulkan manifest is its driver's name; a directory is the set of its   *)
(* manifests.                                                              *)
(***************************************************************************)
EXTENDS Naturals, Sequences, Functions, FiniteSetsExt

VmEnvironment == {
    "DISPLAY", "XAUTHORITY", "XDG_RUNTIME_DIR", "PULSE_SERVER", "WAYLAND_DISPLAY",
    "DBUS_SESSION_BUS_ADDRESS", "GTK_IM_MODULE", "QT_IM_MODULE", "XRE_PROFILE_PATH",
    "PIPEWIRE_RUNTIME_DIR", "PIPEWIRE_REMOTE", "X11_SOCKET"}

LoaderEnvironment == {
    "LD_LIBRARY_PATH", "LD_PRELOAD", "VK_DRIVER_FILES", "VK_ICD_FILENAMES",
    "LIBGL_DRIVERS_PATH", "__EGL_VENDOR_LIBRARY_DIRS", "__EGL_VENDOR_LIBRARY_FILENAMES",
    "LIBGL_VENDORS_PATH", "LOCPATH", "GCONV_PATH", "GI_TYPELIB_PATH", "GIO_EXTRA_MODULES",
    "GTK_PATH", "QT_PLUGIN_PATH", "QT_QPA_PLATFORM_PLUGIN_PATH", "QML2_IMPORT_PATH",
    "ALSA_PLUGIN_DIR", "GST_PLUGIN_PATH", "GST_PLUGIN_PATH_1_0",
    "MESA_LOADER_DRIVER_OVERRIDE", "LIBGL_ALWAYS_SOFTWARE", "GALLIUM_DRIVER"}

\* The keys execute hands on to muvm's request besides FEX's own.
MesaControls == {"MESA_LOADER_DRIVER_OVERRIDE", "LIBGL_ALWAYS_SOFTWARE", "GALLIUM_DRIVER"}

\* The variables whose names begin with FEX_, as far as they occur.
FexControls == {"FEX_ROOTFS", "FEX_THUNKCONFIG", "FEX_APP_CONFIG", "FEX_HOSTENV", "FEX_MULTIBLOCK"}

\* What command_script takes from the VM's own environment.
Inherited == {"DISPLAY", "XAUTHORITY", "XDG_RUNTIME_DIR", "GTK_IM_MODULE", "QT_IM_MODULE",
              "XRE_PROFILE_PATH", "MESA_LOADER_DRIVER_OVERRIDE"}

All(keys, origin) == [k \in keys |-> origin]

\* env.update(new)
Override(env, new) ==
    [k \in DOMAIN env \cup DOMAIN new |-> IF k \in DOMAIN new THEN new[k] ELSE env[k]]

\* env.setdefault, for each key of new
Default(env, new) == Override(new, env)

Without(env, keys) == Restrict(env, DOMAIN env \ keys)

---------------------------------------------------------------------------
(* The backend and the graphics transport.                                 *)

BackendRefused(requested, pagesize) == requested = "fex" /\ pagesize # 4096

BackendFor(requested, pagesize) ==
    IF requested # "auto" THEN requested
    ELSE IF pagesize = 4096 THEN "fex" ELSE "muvm"

\* The drivers with a native context, and the manifests of each.
Known == [asahi |-> "asahi", msm |-> "freedreno", amdgpu |-> "radeon"]

GpuMode(settings, backend) ==
    IF backend = "fex" THEN "native"
    ELSE IF settings.gpuMode = "auto" THEN "drm" ELSE settings.gpuMode

GraphicsRefused(settings, drivers, backend) ==
    \/ backend # "fex" /\ settings.gpuMode = "auto" /\ drivers \cap DOMAIN Known = {}
    \/ GpuMode(settings, backend) = "software" /\ ~settings.allowSoftwareRendering

\* Mutant: a directory is not filtered for the transport.
ManifestsIn_Unfiltered(directory, settings, drivers, mode) ==
    {m \in directory : settings.allowSoftwareRendering \/ m # "lvp"}

ManifestsIn(directory, settings, drivers, mode) ==
    LET hardware == {Known[d] : d \in drivers \cap DOMAIN Known}
    IN {m \in directory :
            /\ mode = "venus" => m = "virtio"
            /\ mode = "software" => m = "lvp"
            /\ mode = "drm" /\ hardware # {} => m \in hardware
            /\ settings.allowSoftwareRendering \/ m # "lvp"}

GuestManifests(settings, drivers, backend) ==
    ManifestsIn(settings.rootfsVulkan, settings, drivers, GpuMode(settings, backend))

\* The NixOS directory, or else the packaged one; the Asahi driver alone where it
\* runs without a VM.
NativeManifests(settings, host, backend) ==
    LET mode == GpuMode(settings, backend)
        nixos == ManifestsIn(host.nixosVulkan, settings, host.drivers, mode)
        paths == IF nixos # {} THEN nixos
                 ELSE ManifestsIn(settings.nativeVulkan, settings, host.drivers, mode)
    IN IF "asahi" \in host.drivers /\ mode = "native" /\ "asahi" \in paths
       THEN {"asahi"} ELSE paths

---------------------------------------------------------------------------
(* The program, and the display's socket.                                  *)

\* resolve_program for a name without a slash: what each directory of PATH has
\* under it, then whether the rootfs has it.  An executable that cannot be read
\* ends the search with an error.
Candidates(host) ==
    {i \in DOMAIN host.path : host.path[i] \in {"x86", "script", "unreadable"}}

ProgramRefused(host) ==
    IF Candidates(host) = {} THEN ~host.rootfsHasIt
    ELSE host.path[Min(Candidates(host))] = "unreadable"

\* x11_socket: /tmp/.X11-unix/Xn if something listens there, else Xn_ if it is the
\* user's.
X11Socket(source, host) ==
    IF "X11_SOCKET" \in DOMAIN source THEN "override"
    ELSE IF "DISPLAY" \notin DOMAIN source THEN "none"
    ELSE IF host.plainSocket = "live" THEN "plain"
    ELSE IF host.renamedSocket = "live" /\ host.ownsRenamed THEN "renamed"
    ELSE "none"

---------------------------------------------------------------------------
(* The environments.                                                       *)

\* Mutant: the caller's loader variables go through.
NativeEnvironment_Whole(source) == source

NativeEnvironment(source) == Without(source, LoaderEnvironment)

\* What guest_environment sets whatever the caller has.
GuestKeys(backend, mode, icds) ==
    {"PATH", "LANG", "LC_ALL", "FEX_ROOTFS", "FEX_THUNKCONFIG", "XDG_DATA_DIRS",
     "SSL_CERT_FILE", "LIBGL_DRIVERS_PATH", "__EGL_VENDOR_LIBRARY_DIRS"}
    \cup (IF icds # {} THEN {"VK_DRIVER_FILES"} ELSE {})
    \cup (IF backend = "muvm"
          THEN {"PULSE_SERVER", "DBUS_SESSION_BUS_ADDRESS", "SDL_AUDIODRIVER"} ELSE {})
    \cup (IF backend = "muvm" /\ mode = "venus" THEN {"MESA_LOADER_DRIVER_OVERRIDE"} ELSE {})
    \cup (IF backend = "muvm" /\ mode = "software" THEN MesaControls ELSE {})

\* Mutant: the display and audio variables of the host go into the VM.
Omitted_LoadersOnly(backend) == LoaderEnvironment

Omitted(backend) ==
    LoaderEnvironment \cup (IF backend = "muvm" THEN VmEnvironment ELSE {})

\* guest_environment, and what execute adds for FEX where nobody set it: the caller's
\* variables, then the runtime's, then the configured ones.
CommandEnvironment(settings, source, backend, icds, natives) ==
    LET kept == DOMAIN source \ Omitted(backend)
        ours == GuestKeys(backend, GpuMode(settings, backend), icds)
        config == DOMAIN settings.environment
        hostenv == natives # {} /\ "VK_DRIVER_FILES" \notin settings.nativeEnvironment
        defaults == {"FEX_APP_CONFIG"} \cup (IF hostenv THEN {"FEX_HOSTENV"} ELSE {})
    IN [k \in kept \cup ours \cup config \cup defaults |->
            IF k \in config THEN "config"
            ELSE IF k \in ours THEN "guest"
            ELSE IF k \in kept THEN source[k] ELSE "native"]

\* What FEX, or a request to the VM, is told besides the application's environment.
Controls(env, backend) ==
    Restrict(env, DOMAIN env \cap
                  (FexControls \cup (IF backend = "muvm" THEN MesaControls ELSE {})))

\* VirtualMachine.host_environment
HostEnvironment(source, host) ==
    Override(
        Default(Override(NativeEnvironment(source), All({"XDG_RUNTIME_DIR"}, "native")),
                All({"RUST_LOG", "PULSE_SERVER", "PIPEWIRE_RUNTIME_DIR"}, "native")),
        All(IF X11Socket(source, host) # "none" THEN {"X11_SOCKET"} ELSE {}, "native"))

\* The environment of the muvm client, or of FEX itself.
LaunchEnvironment(source, host, env, backend) ==
    Override(IF backend = "muvm" THEN HostEnvironment(source, host)
             ELSE NativeEnvironment(source),
             Controls(env, backend))

\* Mutant: what the VM has wins over what the command asks for.
ApplicationEnvironment_VmWins(env, backend) ==
    IF backend = "muvm" THEN Override(env, All(Inherited, "vm")) ELSE env

\* The `env -i` of command_script: what it inherits, then the assignments.
ApplicationEnvironment(env, backend) ==
    IF backend = "muvm" THEN Override(All(Inherited, "vm"), env) ELSE env
=============================================================================
