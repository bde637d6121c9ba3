---------------------------- MODULE MCHostChecks ----------------------------
(* PluginRun for TLC, with the plugins that judge the machine they run on, *)
(* a checkout on it, or one login or one client from it.                   *)
EXTENDS PluginRun, PackageUpdates, RaidArrays, DhcpLeases, ServerLogins, GitCheckouts, LocalChecks, ClientTools

HostPlugins == GitPlugins \cup ToolPlugins \cup {"yum", "portage", "3ware", "lsi", "md", "dhcpd", "svn", "vnc", "sftp", "ram", "mounts",
                                "image", "adapter"}
HostOptions(p) ==
    CASE p = "yum" -> YumOptions [] p = "portage" -> PortageOptions [] p = "3ware" -> TwOptions
      [] p = "dhcpd" -> LeaseOptions [] p \in {"svn", "vnc"} -> LoginOptions [] p = "sftp" -> SftpOptions
      [] p = "ram" -> RamOptions [] p = "mounts" -> MountOptions [] p = "image" -> ImageOptions
      [] p = "adapter" -> AdapterOptions [] p \in GitPlugins -> GitOptions [] p \in {"lsi", "md"} -> {"none"}
      [] p \in ToolPlugins -> ToolOptions(p)
HostWorlds(p) ==
    CASE p = "yum" -> YumWorlds [] p = "portage" -> PortageWorlds [] p = "3ware" -> TwWorlds [] p = "lsi" -> LsiWorlds
      [] p = "md" -> MdWorlds [] p = "dhcpd" -> LeaseWorlds [] p \in {"svn", "vnc"} -> LoginWorlds
      [] p = "sftp" -> SftpWorlds [] p = "ram" -> RamWorlds [] p = "mounts" -> MountWorlds [] p = "image" -> ImageWorlds
      [] p = "adapter" -> AdapterWorlds [] p \in GitPlugins -> GitWorlds [] p \in ToolPlugins -> ToolWorlds(p)
HostChanges(p, w) ==
    CASE p = "yum" -> YumChanges(w) [] p = "portage" -> PortageChanges(w) [] p = "3ware" -> TwChanges(w)
      [] p = "lsi" -> LsiChanges(w) [] p = "md" -> MdChanges(w) [] p \in {"svn", "vnc", "sftp"} -> LoginChanges(w)
      [] p \in GitPlugins -> GitChanges(w) [] p \in ToolPlugins -> ToolChanges(p, w) [] OTHER -> {}
HostAnswer(p, o, w, request) ==
    CASE p = "yum" -> YumRun(o, w, request) [] p = "portage" -> PortageAnswer(w, request) [] p = "3ware" -> TwRun(w, request)
      [] p = "lsi" -> LsiAnswer(w, request)
      [] p = "md" -> IF request[1] = "scan" THEN FindArrays(w) ELSE MdDetail(w, request[2])
      [] p = "dhcpd" -> OpenLeaseFile(w) [] p \in {"svn", "vnc"} -> LibRun(w) [] p = "sftp" -> SftpRun(w)
      [] p \in GitPlugins -> GitAnswer(w, request)
      [] p \in ToolPlugins -> ToolAnswer(p, o, w, request) [] OTHER -> w
HostEffect(p, o, w, request) ==
    CASE p = "lsi" -> LsiEffect(w) [] p \in GitPlugins -> GitEffect(w, request)
      [] p \in ToolPlugins -> ToolEffect(p, w, request) [] OTHER -> w
HostStep(p, o, s, w) ==
    CASE p = "yum" -> YumStep(o, s) [] p = "portage" -> PortageStep(o, s, w.tools = "missing")
      [] p = "3ware" -> TwStep(o, s, TwBinary(w)) [] p = "lsi" -> LsiStep(s) [] p = "md" -> MdStep(s)
      [] p = "dhcpd" -> LeaseStep(o, s) [] p = "svn" -> SvnStep(o, s, w) [] p = "vnc" -> VncStep(o, s, w)
      [] p = "sftp" -> SftpStep(o, s, w) [] p = "ram" -> RamStep(o, s) [] p = "mounts" -> MountStep(o, s)
      [] p = "image" -> ImageStep(o, s) [] p = "adapter" -> AdapterStep(o, s) [] p \in GitPlugins -> GitStep(p, o, s)
      [] p \in ToolPlugins -> ToolStep(p, o, s)
HostClaims(p, o, w) ==
    CASE p = "yum" -> YumClaims(o, w) [] p = "portage" -> PortageClaims(o) [] p = "3ware" -> TwClaims(o, w)
      [] p = "lsi" -> LsiClaims(w) [] p = "md" -> MdClaims(w) [] p = "dhcpd" -> LeaseClaims(o, w)
      [] p \in {"svn", "vnc"} -> {"login", "output"} [] p = "sftp" -> SftpClaims(o)
      [] p = "ram" -> {"warn", "crit"} [] p = "mounts" -> MountClaims(o, w) [] p = "image" -> {"image"}
      [] p = "adapter" -> {"plugin"} [] p \in GitPlugins -> GitClaims(p, o)
      [] p \in ToolPlugins -> ToolClaims(p, o)
HostHolds(p, c, o, w) ==
    CASE p = "yum" -> YumHolds(c, o, w) [] p = "portage" -> PortageHolds(c, o, w) [] p = "3ware" -> TwHolds(c, o, w)
      [] p = "lsi" -> LsiHolds(c, w) [] p = "md" -> MdHolds(c, w) [] p = "dhcpd" -> LeaseHolds(c, o, w)
      [] p \in {"svn", "vnc", "sftp"} -> LoginHolds(c, o, w) [] p = "ram" -> RamHolds(c, o, w)
      [] p = "mounts" -> MountHolds(c, o, w) [] p = "image" -> ImageHolds(c, o, w)
      [] p = "adapter" -> AdapterHolds(o, w) [] p \in GitPlugins -> GitHolds(c, o, w)
      [] p \in ToolPlugins -> ToolHolds(p, c, o, w)
HostTimeout(p) ==
    CASE p = "yum" -> YumTimeout [] p = "portage" -> PortageTimeout [] p = "dhcpd" -> LeaseTimeout
      [] p \in {"svn", "vnc", "sftp"} -> LoginTimeout [] p \in {"3ware", "lsi", "md", "ram"} -> "none"
      [] p \in ToolPlugins -> ToolTimeout(p) [] OTHER -> "UNKNOWN"

HostOverlooks(p, c, o, w) ==
    CASE p = "md" -> MdOverlooks(c, w) [] p = "dhcpd" -> LeaseOverlooks(c, o, w)
      [] p \in ToolPlugins -> ToolOverlooks(p, c, w) [] OTHER -> FALSE
HostExcuses(p, o, w) ==
    CASE p = "yum" -> YumExcuses(w) [] p = "portage" -> PortageExcuses(w) [] p = "md" -> MdExcuses(w) [] p = "dhcpd" -> LeaseExcuses(o, w) [] p = "sftp" -> SftpExcuses(o)
      [] p = "image" -> ImageExcuses(w) [] p \in ToolPlugins -> ToolExcuses(p, w) [] OTHER -> FALSE
=============================================================================
