--------------------------- MODULE PolicyLibrary ---------------------------
(***************************************************************************)
(* The policies the console ships (lib/policyLibrary.ts), each reduced to  *)
(* what the wizard decides with: its name and provenance, the mode its     *)
(* author chose, and the actions its spec takes, hook by hook and selector *)
(* by selector.  Titles, prose, links, hook arguments and filters are left *)
(* out: nothing the console does to a policy looks at them.                *)
(*                                                                         *)
(* A spec maps a hook group to its list of hooks, a hook is the list of    *)
(* its selectors, and a selector maps matchActions, if it has that list,   *)
(* to the actions.                                                         *)
(***************************************************************************)
EXTENDS Naturals, Sequences

Policy(id, name, source, section, enforcing, spec) ==
    [id |-> id, name |-> name, source |-> source, section |-> section,
     enforcing |-> enforcing, kind |-> "TracingPolicy", spec |-> spec]
Namespaced(id, name, source, section, enforcing, spec) ==
    [Policy(id, name, source, section, enforcing, spec)
        EXCEPT !.kind = "TracingPolicyNamespaced"]

Bare == <<>>     \* a hook without selectors
Filters == <<>>  \* a selector that filters and takes no action
Does(actions) == [matchActions |-> actions]
Times(n, hook) == [i \in 1 .. n |-> hook]
NoHooks == <<>>  \* a spec that only sets options or loads maps

SECTIONS == <<"cve", "escape", "privileges", "execution", "files",
              "network", "kernel", "syscalls", "instrumentation">>

-----------------------------------------------------------------------------
authored_cve_2019_5736_runc_proc_self_exe ==
    Policy("authored-cve-2019-5736-runc-proc-self-exe",
        "cve-2019-5736-runc-proc-self-exe", "authored", "cve", FALSE,
        [kprobes |-> <<<<Does(<<"Post">>)>>>>])

authored_cve_2021_4034_pwnkit ==
    Policy("authored-cve-2021-4034-pwnkit",
        "cve-2021-4034-pwnkit", "authored", "cve", FALSE,
        [kprobes |-> <<<<Does(<<"Post">>)>>>>])

authored_cve_2022_0492_cgroups_release_agent ==
    Policy("authored-cve-2022-0492-cgroups-release-agent",
        "cve-2022-0492-cgroups-release-agent", "authored", "cve", FALSE,
        [kprobes |-> <<<<Does(<<"Post">>)>>, <<Does(<<"Post">>)>>>>])

authored_cve_2024_21626_runc_leaked_fd ==
    Policy("authored-cve-2024-21626-runc-leaked-fd",
        "cve-2024-21626-runc-leaked-fd", "authored", "cve", FALSE,
        [kprobes |-> <<<<Does(<<"Post">>)>>, <<Does(<<"Post">>)>>>>])

tracingpolicy_cves_cve_2023_2640_overlayfs_ubuntu ==
    Policy("tracingpolicy-cves-cve-2023-2640-overlayfs-ubuntu",
        "cve-2023-2460-overlayfs-ubuntu", "tracingpolicy", "cve", TRUE,
        [kprobes |-> <<<<Does(<<"Override">>)>>>>])

tracingpolicy_cves_cve_2024_3094_xz_ssh ==
    Policy("tracingpolicy-cves-cve-2024-3094-xz-ssh",
        "cve-2024-3094-xz-ssh", "tracingpolicy", "cve", FALSE,
        [kprobes |-> <<<<Does(<<"Post">>)>>>>])

tracingpolicy_fd_install_ns ==
    Policy("tracingpolicy-fd-install-ns",
        "fd-install", "tracingpolicy", "escape", FALSE,
        [kprobes |-> <<<<Filters>>>>])

tracingpolicy_fd_install_ns_host ==
    Policy("tracingpolicy-fd-install-ns-host",
        "fd-install", "tracingpolicy", "escape", FALSE,
        [kprobes |-> <<<<Filters>>>>])

tracingpolicy_sandbox_linux_namespaces_kill_unprivileged_user_namespace ==
    Policy("tracingpolicy-sandbox-linux-namespaces-kill-unprivileged-user-namespace",
        "kill-unprivileged-user-namespace", "tracingpolicy", "escape", TRUE,
        [kprobes |-> <<<<Does(<<"Sigkill">>)>>>>])

tracingpolicy_sandbox_linux_namespaces_kill_unprivileged_user_namespace_in_pid_namespace ==
    Policy("tracingpolicy-sandbox-linux-namespaces-kill-unprivileged-user-namespace-in-pid-namespace",
        "kill-unprivileged-user-namespace-in-pid-namespace", "tracingpolicy", "escape", TRUE,
        [kprobes |-> <<<<Does(<<"Sigkill">>)>>>>])

tracingpolicy_sys_pivot_root ==
    Policy("tracingpolicy-sys-pivot-root",
        "sys-pivot-root", "tracingpolicy", "escape", FALSE,
        [kprobes |-> <<<<Filters>>>>])

tracingpolicy_sys_mount ==
    Policy("tracingpolicy-sys-mount",
        "syscalls", "tracingpolicy", "escape", FALSE,
        [kprobes |-> <<Bare>>])

tracingpolicy_sys_ptrace ==
    Policy("tracingpolicy-sys-ptrace",
        "syscalls", "tracingpolicy", "escape", FALSE,
        [kprobes |-> <<Bare>>])

policylibrary_privileges_privileges_raise ==
    Policy("policylibrary-privileges-privileges-raise",
        "privileges-raise", "policylibrary", "privileges", FALSE,
        [kprobes |-> <<<<Does(<<"Post">>), Does(<<"Post">>), Does(<<"Post">>)>>, <<Filters>>,
        <<Does(<<"Post">>)>>, <<Does(<<"Post">>)>>, <<Does(<<"Post">>), Does(<<"Post">>)>>,
        <<Does(<<"Post">>), Does(<<"Post">>)>>, <<Does(<<"Post">>), Does(<<"Post">>)>>,
        <<Does(<<"Post">>), Does(<<"Post">>)>>, <<Does(<<"Post">>)>>, <<Does(<<"Post">>)>>>>])

policylibrary_privileges_privileges_setuid_root ==
    Policy("policylibrary-privileges-privileges-setuid-root",
        "privileges-setuid-root", "policylibrary", "privileges", FALSE,
        [kprobes |-> <<<<Does(<<"Post">>)>>, <<Does(<<"Post">>)>>,
        <<Does(<<"Post">>), Does(<<"Post">>)>>, <<Does(<<"Post">>), Does(<<"Post">>)>>,
        <<Does(<<"Post">>), Does(<<"Post">>)>>, <<Does(<<"Post">>), Does(<<"Post">>)>>,
        <<Does(<<"Post">>)>>, <<Does(<<"Post">>)>>>>])

tracingpolicy_kprobe_commit_creds ==
    Policy("tracingpolicy-kprobe-commit-creds",
        "commit-creds", "tracingpolicy", "privileges", FALSE,
        [kprobes |-> <<Bare>>])

tracingpolicy_process_credentials_creds_capability_usage ==
    Policy("tracingpolicy-process-credentials-creds-capability-usage",
        "creds-capability-checks", "tracingpolicy", "privileges", FALSE,
        [kprobes |-> <<<<Does(<<"Post">>)>>>>])

tracingpolicy_process_credentials_process_creds_changed ==
    Policy("tracingpolicy-process-credentials-process-creds-changed",
        "process-creds-changed", "tracingpolicy", "privileges", FALSE,
        [kprobes |-> Times(3, <<Does(<<"Post">>)>>)])

tracingpolicy_process_credentials_process_creds_installed ==
    Policy("tracingpolicy-process-credentials-process-creds-installed",
        "process-creds-changed", "tracingpolicy", "privileges", FALSE,
        [kprobes |-> <<<<Does(<<"Post">>)>>>>])

tracingpolicy_process_credentials_process_credentials_changes_at_syscalls ==
    Policy("tracingpolicy-process-credentials-process-credentials-changes-at-syscalls",
        "process.credentials.changes.at.syscalls", "tracingpolicy", "privileges", FALSE,
        [kprobes |-> Times(8, <<Filters>>)])

tracingpolicy_sys_setuid ==
    Policy("tracingpolicy-sys-setuid",
        "syscalls", "tracingpolicy", "privileges", FALSE,
        [kprobes |-> <<Bare>>])

tracingpolicy_lsm_bprm_check ==
    Policy("tracingpolicy-lsm-bprm-check",
        "lsm", "tracingpolicy", "execution", TRUE,
        [lsmhooks |-> <<<<Does(<<"Override", "Post">>)>>>>])

tracingpolicy_process_exec_process_exec_elf_begin ==
    Policy("tracingpolicy-process-exec-process-exec-elf-begin",
        "process-exec-elf-begin", "tracingpolicy", "execution", FALSE,
        [kprobes |-> <<Bare>>])

tracingpolicy_rawtp ==
    Policy("tracingpolicy-rawtp",
        "rawtp", "tracingpolicy", "execution", FALSE,
        [tracepoints |-> <<Bare>>])

tracingpolicy_security_bprm_check ==
    Policy("tracingpolicy-security-bprm-check",
        "sample-no-exec-id", "tracingpolicy", "execution", FALSE,
        [kprobes |-> <<<<Filters>>>>])

other_file_block_kubectl_exec_access ==
    Policy("other-file-block-kubectl-exec-access",
        "enforce-security", "other", "files", TRUE,
        [kprobes |-> <<<<Does(<<"Override", "Sigkill">>)>>>>])

tracingpolicy_fd_install_cap_changes ==
    Policy("tracingpolicy-fd-install-cap-changes",
        "fd-install", "tracingpolicy", "files", FALSE,
        [kprobes |-> <<<<Filters>>>>])

tracingpolicy_fd_install_caps ==
    Policy("tracingpolicy-fd-install-caps",
        "fd-install", "tracingpolicy", "files", FALSE,
        [kprobes |-> <<<<Filters>>>>])

tracingpolicy_filename_monitoring ==
    Policy("tracingpolicy-filename-monitoring",
        "file-monitoring", "tracingpolicy", "files", FALSE,
        [kprobes |-> Times(3, <<Filters>>)])

tracingpolicy_filename_monitoring_filtered ==
    Policy("tracingpolicy-filename-monitoring-filtered",
        "file-monitoring-filtered", "tracingpolicy", "files", FALSE,
        [kprobes |-> Times(3, <<Filters>>)])

quickstart_file_monitoring ==
    Policy("quickstart-file-monitoring",
        "file-monitoring-filtered", "quickstart", "files", FALSE,
        [kprobes |-> <<<<Filters, Filters, Filters>>, <<Filters, Filters>>, <<Filters>>>>])

quickstart_file_monitoring_enforce ==
    Namespaced("quickstart-file-monitoring-enforce",
        "file-monitoring-filtered", "quickstart", "files", TRUE,
        [kprobes |-> <<<<Does(<<"Sigkill">>), Does(<<"Sigkill">>), Does(<<"Sigkill">>)>>,
        <<Does(<<"Sigkill">>), Does(<<"Sigkill">>)>>, <<Does(<<"Sigkill">>)>>>>])

tracingpolicy_security_inode_follow_link ==
    Policy("tracingpolicy-security-inode-follow-link",
        "follow-symlink", "tracingpolicy", "files", FALSE,
        [kprobes |-> <<Bare>>])

tracingpolicy_lsm_file_open ==
    Policy("tracingpolicy-lsm-file-open",
        "lsm-file-open", "tracingpolicy", "files", FALSE,
        [lsmhooks |-> <<<<Filters>>>>])

tracingpolicy_override_security ==
    Policy("tracingpolicy-override-security",
        "security-override", "tracingpolicy", "files", TRUE,
        [kprobes |-> <<<<Filters, Does(<<"Override">>)>>>>])

tracingpolicy_hardlink_observe ==
    Policy("tracingpolicy-hardlink-observe",
        "sys-linkat-passwd", "tracingpolicy", "files", FALSE,
        [kprobes |-> <<<<Filters>>>>])

tracingpolicy_hardlink_override ==
    Policy("tracingpolicy-hardlink-override",
        "sys-linkat-passwd", "tracingpolicy", "files", TRUE,
        [kprobes |-> <<<<Does(<<"Override">>)>>>>])

tracingpolicy_openat_write ==
    Policy("tracingpolicy-openat-write",
        "sys-openat", "tracingpolicy", "files", FALSE,
        [kprobes |-> <<<<Filters>>>>])

tracingpolicy_symlink_observe ==
    Policy("tracingpolicy-symlink-observe",
        "sys-symlink-passwd", "tracingpolicy", "files", FALSE,
        [kprobes |-> <<<<Filters>>>>])

tracingpolicy_symlink_override ==
    Policy("tracingpolicy-symlink-override",
        "sys-symlink-passwd", "tracingpolicy", "files", TRUE,
        [kprobes |-> <<<<Does(<<"Override">>)>>>>])

tracingpolicy_write ==
    Policy("tracingpolicy-write",
        "sys-write", "tracingpolicy", "files", FALSE,
        [kprobes |-> <<<<Filters>>>>])

tracingpolicy_tty ==
    Policy("tracingpolicy-tty",
        "tty", "tracingpolicy", "files", FALSE,
        [kprobes |-> <<Bare>>])

tracingpolicy_tty_54 ==
    Policy("tracingpolicy-tty-54",
        "tty", "tracingpolicy", "files", FALSE,
        [kprobes |-> <<Bare>>])

policylibrary_sshd ==
    Policy("policylibrary-sshd",
        "accept", "policylibrary", "network", FALSE,
        [kprobes |-> <<<<Filters>>, <<Does(<<"UntrackSock">>)>>, <<Filters>>, Bare, <<Filters>>>>])

policylibrary_egress ==
    Policy("policylibrary-egress",
        "monitor-network-activity-outside-cluster-cidr-range", "policylibrary", "network", FALSE,
        [kprobes |-> <<<<Filters>>>>])

tracingpolicy_tcp_accept ==
    Policy("tracingpolicy-tcp-accept",
        "accept", "tracingpolicy", "network", FALSE,
        [kprobes |-> <<<<Filters>>, <<Filters, Does(<<"UntrackSock">>)>>, <<Filters>>, <<Filters>>,
        Bare>>])

tracingpolicy_tcp_connect_with_selectors ==
    Policy("tracingpolicy-tcp-connect-with-selectors",
        "connect", "tracingpolicy", "network", FALSE,
        [kprobes |-> Times(3, <<Filters>>)])

tracingpolicy_tcp_connect ==
    Policy("tracingpolicy-tcp-connect",
        "connect", "tracingpolicy", "network", FALSE,
        [kprobes |-> Times(3, Bare)])

tracingpolicy_tcp_connect_only_local_addrs ==
    Policy("tracingpolicy-tcp-connect-only-local-addrs",
        "connect-only-local-addrs", "tracingpolicy", "network", TRUE,
        [kprobes |-> <<<<Does(<<"Sigkill">>)>>>>])

tracingpolicy_tcp_connect_only_private_addrs ==
    Policy("tracingpolicy-tcp-connect-only-private-addrs",
        "connect-only-private-addrs", "tracingpolicy", "network", TRUE,
        [kprobes |-> <<<<Does(<<"Sigkill">>)>>>>])

tracingpolicy_datagram_with_selectors ==
    Policy("tracingpolicy-datagram-with-selectors",
        "datagram", "tracingpolicy", "network", FALSE,
        [kprobes |-> <<<<Does(<<"Post">>)>>>>])

tracingpolicy_datagram_with_sock_tracking ==
    Policy("tracingpolicy-datagram-with-sock-tracking",
        "datagram", "tracingpolicy", "network", FALSE,
        [kprobes |-> <<<<Filters>>, <<Does(<<"UntrackSock">>)>>, <<Does(<<"Post">>)>>>>])

tracingpolicy_datagram ==
    Policy("tracingpolicy-datagram",
        "datagram", "tracingpolicy", "network", FALSE,
        [kprobes |-> <<Bare>>])

tracingpolicy_datagram_518 ==
    Policy("tracingpolicy-datagram-518",
        "datagram-518", "tracingpolicy", "network", FALSE,
        [kprobes |-> <<<<Filters>>, <<Filters, Does(<<"UntrackSock">>)>>, <<Filters>>, <<Filters>>,
        <<Filters>>, <<Filters>>>>])

tracingpolicy_dev_hard_start_xmit ==
    Policy("tracingpolicy-dev-hard-start-xmit",
        "dev-hard-start-xmit", "tracingpolicy", "network", FALSE,
        [kprobes |-> <<<<Filters>>>>])

tracingpolicy_dns_only_specified_servers ==
    Policy("tracingpolicy-dns-only-specified-servers",
        "dns-only-specified-servers", "tracingpolicy", "network", TRUE,
        [kprobes |-> <<<<Does(<<"Sigkill">>)>>>>])

quickstart_network_egress_cluster_enforce ==
    Namespaced("quickstart-network-egress-cluster-enforce",
        "enforce-network-activity-outside-cluster-cidr-range", "quickstart", "network", TRUE,
        [kprobes |-> <<<<Does(<<"Sigkill">>)>>>>])

quickstart_network_egress_cluster ==
    Policy("quickstart-network-egress-cluster",
        "monitor-network-activity-outside-cluster-cidr-range", "quickstart", "network", FALSE,
        [kprobes |-> <<<<Filters>>>>])

tracingpolicy_security_socket_connect_block_others ==
    Policy("tracingpolicy-security-socket-connect-block-others",
        "security-socket-connect", "tracingpolicy", "network", TRUE,
        [kprobes |-> <<<<Does(<<"Post">>), Does(<<"Override">>)>>>>])

tracingpolicy_security_socket_connect ==
    Policy("tracingpolicy-security-socket-connect",
        "security-socket-connect", "tracingpolicy", "network", FALSE,
        [kprobes |-> <<<<Filters>>>>])

tracingpolicy_dev_queue_xmit ==
    Policy("tracingpolicy-dev-queue-xmit",
        "syscalls", "tracingpolicy", "network", FALSE,
        [kprobes |-> <<Bare>>])

tracingpolicy_tcp_listen ==
    Policy("tracingpolicy-tcp-listen",
        "tcp-listen", "tracingpolicy", "network", FALSE,
        [kprobes |-> <<<<Does(<<"NoPost">>)>>, <<Does(<<"UntrackSock", "NoPost">>)>>, <<Filters>>>>])

policylibrary_bpf ==
    Policy("policylibrary-bpf",
        "bpf-library-policy", "policylibrary", "kernel", FALSE,
        [kprobes |-> <<Bare, Bare, Bare, Bare, <<Filters, Filters>>, <<Filters, Filters>>>>])

policylibrary_modules ==
    Policy("policylibrary-modules",
        "monitor-kernel-modules", "policylibrary", "kernel", FALSE,
        [kprobes |-> <<Bare, <<Filters>>>>])

tracingpolicy_bpf ==
    Policy("tracingpolicy-bpf",
        "bpf", "tracingpolicy", "kernel", FALSE,
        [kprobes |-> Times(4, Bare)])

tracingpolicy_host_changes_monitor_kernel_modules ==
    Policy("tracingpolicy-host-changes-monitor-kernel-modules",
        "monitor-kernel-modules", "tracingpolicy", "kernel", FALSE,
        [kprobes |-> <<Bare, <<Filters>>, Bare, Bare>>])

tracingpolicy_modules_nohost ==
    Policy("tracingpolicy-modules-nohost",
        "monitor-kernel-modules", "tracingpolicy", "kernel", TRUE,
        [kprobes |-> Times(3, <<Does(<<"Override", "Sigkill">>)>>)])

tracingpolicy_host_changes_monitor_signed_kernel_modules ==
    Policy("tracingpolicy-host-changes-monitor-signed-kernel-modules",
        "monitor-signed-kernel-modules", "tracingpolicy", "kernel", FALSE,
        [kprobes |-> <<Bare, <<Filters>>, Bare>>])

tracingpolicy_sys_clock_settime ==
    Policy("tracingpolicy-sys-clock-settime",
        "sys-clock-settime", "tracingpolicy", "kernel", FALSE,
        [kprobes |-> <<<<Filters>>>>])

tracingpolicy_list_generated_ftrace ==
    Policy("tracingpolicy-list-generated-ftrace",
        "all-ksys-for-kill", "tracingpolicy", "syscalls", FALSE,
        [kprobes |-> <<<<Filters>>>>])

tracingpolicy_list_syscalls_generated ==
    Policy("tracingpolicy-list-syscalls-generated",
        "all-syscalls-for-kill", "tracingpolicy", "syscalls", FALSE,
        [kprobes |-> <<<<Filters>>>>])

tracingpolicy_killer ==
    Policy("tracingpolicy-killer",
        "kill-syscalls", "tracingpolicy", "syscalls", TRUE,
        [tracepoints |-> <<<<Does(<<"NotifyEnforcer">>)>>>>])

tracingpolicy_list_syscalls ==
    Policy("tracingpolicy-list-syscalls",
        "list-syscalls", "tracingpolicy", "syscalls", FALSE,
        [kprobes |-> <<Bare>>])

tracingpolicy_list_syscalls_tracepoint ==
    Policy("tracingpolicy-list-syscalls-tracepoint",
        "list-syscalls-tracepoint", "tracingpolicy", "syscalls", FALSE,
        [tracepoints |-> <<<<Filters>>>>])

tracingpolicy_raw_syscalls ==
    Policy("tracingpolicy-raw-syscalls",
        "raw-syscalls", "tracingpolicy", "syscalls", FALSE,
        [tracepoints |-> <<Bare>>])

policylibrary_library ==
    Policy("policylibrary-library",
        "loader", "policylibrary", "instrumentation", FALSE,
        NoHooks)

tracingpolicy_open_dnsrequest ==
    Policy("tracingpolicy-open-dnsrequest",
        "dns", "tracingpolicy", "instrumentation", FALSE,
        [kprobes |-> <<<<Does(<<"DnsLookup">>)>>>>])

tracingpolicy_loader ==
    Policy("tracingpolicy-loader",
        "loader", "tracingpolicy", "instrumentation", FALSE,
        NoHooks)

tracingpolicy_lsm_track_grandparent ==
    Policy("tracingpolicy-lsm-track-grandparent",
        "lsm", "tracingpolicy", "instrumentation", FALSE,
        [lsmhooks |-> <<<<Does(<<"Post">>)>>>>])

tracingpolicy_stack_traces ==
    Policy("tracingpolicy-stack-traces",
        "stack-traces-example", "tracingpolicy", "instrumentation", FALSE,
        [kprobes |-> <<<<Does(<<"Post">>)>>>>])

tracingpolicy_uprobe_binaries ==
    Policy("tracingpolicy-uprobe-binaries",
        "uprobe", "tracingpolicy", "instrumentation", FALSE,
        [uprobes |-> <<<<Filters>>>>])

tracingpolicy_uprobe_host ==
    Policy("tracingpolicy-uprobe-host",
        "uprobe", "tracingpolicy", "instrumentation", FALSE,
        [uprobes |-> <<Bare>>])

tracingpolicy_uprobe_pid ==
    Policy("tracingpolicy-uprobe-pid",
        "uprobe", "tracingpolicy", "instrumentation", FALSE,
        [uprobes |-> <<<<Filters>>>>])

tracingpolicy_uprobe ==
    Policy("tracingpolicy-uprobe",
        "uprobe", "tracingpolicy", "instrumentation", FALSE,
        [uprobes |-> <<Bare>>])

tracingpolicy_open_geturl ==
    Policy("tracingpolicy-open-geturl",
        "url", "tracingpolicy", "instrumentation", FALSE,
        [kprobes |-> <<<<Does(<<"GetUrl">>)>>>>])

tracingpolicy_usdt_set ==
    Policy("tracingpolicy-usdt-set",
        "usdts", "tracingpolicy", "instrumentation", FALSE,
        [usdts |-> <<<<Does(<<"Set">>)>>>>])

tracingpolicy_usdt ==
    Policy("tracingpolicy-usdt",
        "usdts", "tracingpolicy", "instrumentation", FALSE,
        [usdts |-> <<Bare>>])

-----------------------------------------------------------------------------
POLICIES ==
    <<authored_cve_2019_5736_runc_proc_self_exe, authored_cve_2021_4034_pwnkit,
      authored_cve_2022_0492_cgroups_release_agent, authored_cve_2024_21626_runc_leaked_fd,
      tracingpolicy_cves_cve_2023_2640_overlayfs_ubuntu,
      tracingpolicy_cves_cve_2024_3094_xz_ssh, tracingpolicy_fd_install_ns,
      tracingpolicy_fd_install_ns_host,
      tracingpolicy_sandbox_linux_namespaces_kill_unprivileged_user_namespace,
      tracingpolicy_sandbox_linux_namespaces_kill_unprivileged_user_namespace_in_pid_namespace,
      tracingpolicy_sys_pivot_root, tracingpolicy_sys_mount, tracingpolicy_sys_ptrace,
      policylibrary_privileges_privileges_raise,
      policylibrary_privileges_privileges_setuid_root, tracingpolicy_kprobe_commit_creds,
      tracingpolicy_process_credentials_creds_capability_usage,
      tracingpolicy_process_credentials_process_creds_changed,
      tracingpolicy_process_credentials_process_creds_installed,
      tracingpolicy_process_credentials_process_credentials_changes_at_syscalls,
      tracingpolicy_sys_setuid, tracingpolicy_lsm_bprm_check,
      tracingpolicy_process_exec_process_exec_elf_begin, tracingpolicy_rawtp,
      tracingpolicy_security_bprm_check, other_file_block_kubectl_exec_access,
      tracingpolicy_fd_install_cap_changes, tracingpolicy_fd_install_caps,
      tracingpolicy_filename_monitoring, tracingpolicy_filename_monitoring_filtered,
      quickstart_file_monitoring, quickstart_file_monitoring_enforce,
      tracingpolicy_security_inode_follow_link, tracingpolicy_lsm_file_open,
      tracingpolicy_override_security, tracingpolicy_hardlink_observe,
      tracingpolicy_hardlink_override, tracingpolicy_openat_write,
      tracingpolicy_symlink_observe, tracingpolicy_symlink_override, tracingpolicy_write,
      tracingpolicy_tty, tracingpolicy_tty_54, policylibrary_sshd, policylibrary_egress,
      tracingpolicy_tcp_accept, tracingpolicy_tcp_connect_with_selectors,
      tracingpolicy_tcp_connect, tracingpolicy_tcp_connect_only_local_addrs,
      tracingpolicy_tcp_connect_only_private_addrs, tracingpolicy_datagram_with_selectors,
      tracingpolicy_datagram_with_sock_tracking, tracingpolicy_datagram,
      tracingpolicy_datagram_518, tracingpolicy_dev_hard_start_xmit,
      tracingpolicy_dns_only_specified_servers, quickstart_network_egress_cluster_enforce,
      quickstart_network_egress_cluster, tracingpolicy_security_socket_connect_block_others,
      tracingpolicy_security_socket_connect, tracingpolicy_dev_queue_xmit,
      tracingpolicy_tcp_listen, policylibrary_bpf, policylibrary_modules, tracingpolicy_bpf,
      tracingpolicy_host_changes_monitor_kernel_modules, tracingpolicy_modules_nohost,
      tracingpolicy_host_changes_monitor_signed_kernel_modules,
      tracingpolicy_sys_clock_settime, tracingpolicy_list_generated_ftrace,
      tracingpolicy_list_syscalls_generated, tracingpolicy_killer,
      tracingpolicy_list_syscalls, tracingpolicy_list_syscalls_tracepoint,
      tracingpolicy_raw_syscalls, policylibrary_library, tracingpolicy_open_dnsrequest,
      tracingpolicy_loader, tracingpolicy_lsm_track_grandparent, tracingpolicy_stack_traces,
      tracingpolicy_uprobe_binaries, tracingpolicy_uprobe_host, tracingpolicy_uprobe_pid,
      tracingpolicy_uprobe, tracingpolicy_open_geturl, tracingpolicy_usdt_set,
      tracingpolicy_usdt>>

POLICIES_BY_ID == [id \in {POLICIES[i].id : i \in DOMAIN POLICIES} |->
                    CHOOSE p \in {POLICIES[i] : i \in DOMAIN POLICIES} : p.id = id]

(* The names in the order localeCompare gives them.                        *)
NAMES ==
    <<"accept", "all-ksys-for-kill", "all-syscalls-for-kill", "bpf",
      "bpf-library-policy", "commit-creds", "connect", "connect-only-local-addrs",
      "connect-only-private-addrs", "creds-capability-checks",
      "cve-2019-5736-runc-proc-self-exe", "cve-2021-4034-pwnkit",
      "cve-2022-0492-cgroups-release-agent", "cve-2023-2460-overlayfs-ubuntu",
      "cve-2024-21626-runc-leaked-fd", "cve-2024-3094-xz-ssh", "datagram", "datagram-518",
      "dev-hard-start-xmit", "dns", "dns-only-specified-servers",
      "enforce-network-activity-outside-cluster-cidr-range", "enforce-security",
      "fd-install", "file-monitoring", "file-monitoring-filtered", "follow-symlink",
      "kill-syscalls", "kill-unprivileged-user-namespace",
      "kill-unprivileged-user-namespace-in-pid-namespace", "list-syscalls",
      "list-syscalls-tracepoint", "loader", "lsm", "lsm-file-open", "monitor-kernel-modules",
      "monitor-network-activity-outside-cluster-cidr-range", "monitor-signed-kernel-modules",
      "privileges-raise", "privileges-setuid-root", "process-creds-changed",
      "process-exec-elf-begin", "process.credentials.changes.at.syscalls", "raw-syscalls",
      "rawtp", "sample-no-exec-id", "security-override", "security-socket-connect",
      "stack-traces-example", "sys-clock-settime", "sys-linkat-passwd", "sys-openat",
      "sys-pivot-root", "sys-symlink-passwd", "sys-write", "syscalls", "tcp-listen", "tty",
      "uprobe", "url", "usdts">>
=============================================================================
